---------------------------- MODULE Spec2Model ----------------------------
(***************************************************************************)
(* go-metatile-cleaner, cmd/main.go: one producer goroutine enumerates the  *)
(* tiles of zooms 0..max-zoom into a buffered channel, `concurrency` delete *)
(* workers drain it into batches of at most maxDeleteKeys keys and send     *)
(* them to S3 DeleteObjects, a ticker goroutine logs the two counters, and  *)
(* main waits for the producer, closes the channel, waits for the workers   *)
(* and logs the totals.  log.Fatalf ends the process from any goroutine.    *)
(***************************************************************************)
EXTENDS Integers, Sequences, FiniteSets, TLC

(***************************************************************************)
(* Bounds of the model.                                                     *)
(***************************************************************************)
\* Largest value of the -concurrency flag that is explored (0 included).
MaxConcurrency == 2

\* Capacity of tileChan.  The program makes the channel with 10000 slots
\* (main.go:78); the model keeps the buffered-channel semantics and a small
\* capacity, so that runs with more tiles than slots are explored.
TileChanCap == 2

\* Values of -max-zoom explored with any number of workers.
ConcurrentZooms == 0 .. 1

\* Values of -max-zoom explored with at most one worker: 5 is the first zoom
\* whose run (1365 tiles) fills a batch of maxDeleteKeys keys.
SingleWorkerZooms == {0, 1, 2, 5}

(***************************************************************************)
(* Program constants.                                                       *)
(***************************************************************************)
maxDeleteKeys == 500

\* `if len(result.Errors) > 10` (main.go:133).
SampleErrorThreshold == 10

BuildIDs == {"", "abc123"}
BucketNames == {"", "tiles"}

\* The command lines explored: the four flags of main.
Flags ==
  { f \in [buildID : BuildIDs, bucketName : BucketNames,
           concurrency : 0 .. MaxConcurrency,
           maxZoom : ConcurrentZooms \cup SingleWorkerZooms] :
      /\ f.maxZoom \in ConcurrentZooms \/ f.concurrency <= 1
      \* a run that stops at flag validation is the same whatever the zoom
      /\ (f.buildID = "" \/ f.bucketName = "") => f.maxZoom \in ConcurrentZooms }

Workers == 1 .. MaxConcurrency

VARIABLES
  flags,        \* *buildID, *bucketName, *concurrency, *maxZoom after flag.Parse
  mainPc,       \* position of the main goroutine
  j,            \* main's loop counter over the delete workers
  exited,       \* the process has ended through log.Fatalf (os.Exit(1))
  tileChan,     \* the tiles buffered in tileChan, oldest first
  chanClosed,   \* close(tileChan) has run
  sourceWG,     \* sourceWaitGroup's counter
  sinkWG,       \* sinkWaitGroup's counter
  prodPc,       \* position of the producer goroutine
  z,            \* the producer's zoom loop variable
  k,            \* number of tiles GenerateTiles has handed over at zoom z
  wPc,          \* position of each delete worker
  input,        \* each worker's *s3.DeleteObjectsInput
  result,       \* each worker's result of its last sendDeleteObjects
  deletes,      \* the deletes counter
  errors,       \* the errors counter
  tickerOn,     \* the ticker delivers ticks
  repPc,        \* position of the reporter goroutine
  repDeletes,   \* the reporter's atomic.LoadUint64(&deletes)
  sampleLogs,   \* number of "Sample error" lines logged
  doneLog,      \* the "Done. Deleted ..." line, if logged
  received,     \* history: how many tiles each worker took from tileChan
  calls,        \* history: the key lists of each worker's DeleteObjects calls
  store         \* history: totals over the calls that returned a result

vars == << flags, mainPc, j, exited, tileChan, chanClosed, sourceWG, sinkWG,
           prodPc, z, k, wPc, input, result, deletes, errors, tickerOn, repPc,
           repDeletes, sampleLogs, doneLog, received, calls, store >>

mainVars == << mainPc, j >>
chanVars == << tileChan, chanClosed >>
prodVars == << prodPc, z, k >>
counterVars == << deletes, errors >>
repVars == << tickerOn, repPc, repDeletes >>
histVars == << received, calls, store >>

(***************************************************************************)
(* tile.GenerateTiles over the whole world, one zoom at a time.  The tile   *)
(* package is not part of the sources at hand: the enumeration follows the  *)
(* documented contract (2^z x 2^z tiles, x and y in 0 .. 2^z - 1, north     *)
(* origin), walked column by column.                                        *)
(***************************************************************************)
TilesPerAxis(zoom) == 2 ^ zoom

TilesAtZoom(zoom) == TilesPerAxis(zoom) * TilesPerAxis(zoom)

\* The i-th tile (from 0) GenerateTiles hands to ConsumerFunc at `zoom`.
GenerateTiles(zoom, i) ==
  [Z |-> zoom, X |-> i \div TilesPerAxis(zoom), Y |-> i % TilesPerAxis(zoom)]

RECURSIVE TotalTiles(_)
\* Number of tiles of zooms 0 .. maxZoom.
TotalTiles(maxZoom) ==
  IF maxZoom = 0 THEN 1 ELSE TilesAtZoom(maxZoom) + TotalTiles(maxZoom - 1)

(***************************************************************************)
(* computeKey.  md5Hex5 is hex.EncodeToString(md5.Sum(key))[:5] on the      *)
(* paths of the tiles of zooms 0 .. 5, tabulated from MD5 itself.           *)
(***************************************************************************)
md5Hex5 ==
  (
   (
    (
     (
      (
       (
        (
         (
          ("0/0/0.zip" :> "df4c9" @@ "1/0/0.zip" :> "c5494" @@ "1/0/1.zip" :> "19645" @@ "1/1/0.zip" :> "2665e")
          @@
          ("1/1/1.zip" :> "f0799" @@ "2/0/0.zip" :> "322ac" @@ "2/0/1.zip" :> "654b6" @@ "2/0/2.zip" :> "c2f09")
         )
         @@
         (
          ("2/0/3.zip" :> "29999" @@ "2/1/0.zip" :> "6cd9f" @@ "2/1/1.zip" :> "6edea" @@ "2/1/2.zip" :> "2b743")
          @@
          (
           ("2/1/3.zip" :> "8ab3e" @@ "2/2/0.zip" :> "7c7f1" @@ "2/2/1.zip" :> "92bf0" @@ "2/2/2.zip" :> "471b3")
           @@
           ("2/2/3.zip" :> "a0fe3" @@ "2/3/0.zip" :> "ea6d8" @@ "2/3/1.zip" :> "8bb41" @@ "2/3/2.zip" :> "80a59")
          )
         )
        )
        @@
        (
         (
          ("2/3/3.zip" :> "18c7e" @@ "3/0/0.zip" :> "aaace" @@ "3/0/1.zip" :> "1960c" @@ "3/0/2.zip" :> "a58e5")
          @@
          ("3/0/3.zip" :> "b044c" @@ "3/0/4.zip" :> "62b33" @@ "3/0/5.zip" :> "70438" @@ "3/0/6.zip" :> "bfc90")
         )
         @@
         (
          ("3/0/7.zip" :> "669a3" @@ "3/1/0.zip" :> "4c471" @@ "3/1/1.zip" :> "9d970" @@ "3/1/2.zip" :> "db47b")
          @@
          (
           ("3/1/3.zip" :> "c7ebf" @@ "3/1/4.zip" :> "bc881" @@ "3/1/5.zip" :> "65424" @@ "3/1/6.zip" :> "b215a")
           @@
           ("3/1/7.zip" :> "c6966" @@ "3/2/0.zip" :> "4d3cd" @@ "3/2/1.zip" :> "19f02" @@ "3/2/2.zip" :> "64298")
          )
         )
        )
       )
       @@
       (
        (
         (
          ("3/2/3.zip" :> "64ffa" @@ "3/2/4.zip" :> "2eb23" @@ "3/2/5.zip" :> "f657b" @@ "3/2/6.zip" :> "ebe9a")
          @@
          ("3/2/7.zip" :> "2d373" @@ "3/3/0.zip" :> "af119" @@ "3/3/1.zip" :> "97415" @@ "3/3/2.zip" :> "e8d61")
         )
         @@
         (
          ("3/3/3.zip" :> "3f465" @@ "3/3/4.zip" :> "b4bfb" @@ "3/3/5.zip" :> "be015" @@ "3/3/6.zip" :> "4ee90")
          @@
          (
           ("3/3/7.zip" :> "f6933" @@ "3/4/0.zip" :> "ff35e" @@ "3/4/1.zip" :> "0a4a2" @@ "3/4/2.zip" :> "ea98d")
           @@
           ("3/4/3.zip" :> "f1cd0" @@ "3/4/4.zip" :> "a9960" @@ "3/4/5.zip" :> "caef7" @@ "3/4/6.zip" :> "47d02")
          )
         )
        )
        @@
        (
         (
          ("3/4/7.zip" :> "883b1" @@ "3/5/0.zip" :> "3f67a" @@ "3/5/1.zip" :> "bd514" @@ "3/5/2.zip" :> "0ca57")
          @@
          (
           ("3/5/3.zip" :> "a27d3" @@ "3/5/4.zip" :> "8112c" @@ "3/5/5.zip" :> "1f1a6" @@ "3/5/6.zip" :> "39bf1")
           @@
           ("3/5/7.zip" :> "7da59" @@ "3/6/0.zip" :> "04f60" @@ "3/6/1.zip" :> "9c1a5" @@ "3/6/2.zip" :> "e032b")
          )
         )
         @@
         (
          ("3/6/3.zip" :> "5e531" @@ "3/6/4.zip" :> "7bc3b" @@ "3/6/5.zip" :> "f72c6" @@ "3/6/6.zip" :> "81e3f")
          @@
          (
           ("3/6/7.zip" :> "ac125" @@ "3/7/0.zip" :> "59ed0" @@ "3/7/1.zip" :> "bb24d" @@ "3/7/2.zip" :> "b776f")
           @@
           ("3/7/3.zip" :> "b1076" @@ "3/7/4.zip" :> "1ad39" @@ "3/7/5.zip" :> "4635f" @@ "3/7/6.zip" :> "eebd4")
          )
         )
        )
       )
      )
      @@
      (
       (
        (
         (
          ("3/7/7.zip" :> "d21a6" @@ "4/0/0.zip" :> "11f7e" @@ "4/0/1.zip" :> "820c1" @@ "4/0/2.zip" :> "065ed")
          @@
          ("4/0/3.zip" :> "93fb0" @@ "4/0/4.zip" :> "c36dd" @@ "4/0/5.zip" :> "8d789" @@ "4/0/6.zip" :> "268ed")
         )
         @@
         (
          ("4/0/7.zip" :> "df4e3" @@ "4/0/8.zip" :> "896e2" @@ "4/0/9.zip" :> "7b8a1" @@ "4/0/10.zip" :> "75f9a")
          @@
          (
           ("4/0/11.zip" :> "03541" @@ "4/0/12.zip" :> "6943f" @@ "4/0/13.zip" :> "08c3e" @@ "4/0/14.zip" :> "62a1b")
           @@
           ("4/0/15.zip" :> "1dba5" @@ "4/1/0.zip" :> "a859e" @@ "4/1/1.zip" :> "6a4ec" @@ "4/1/2.zip" :> "bef7e")
          )
         )
        )
        @@
        (
         (
          ("4/1/3.zip" :> "e3d76" @@ "4/1/4.zip" :> "2b7e7" @@ "4/1/5.zip" :> "53c4f" @@ "4/1/6.zip" :> "75db7")
          @@
          ("4/1/7.zip" :> "f9fb3" @@ "4/1/8.zip" :> "817f7" @@ "4/1/9.zip" :> "6ef75" @@ "4/1/10.zip" :> "dc124")
         )
         @@
         (
          ("4/1/11.zip" :> "d0211" @@ "4/1/12.zip" :> "9f6af" @@ "4/1/13.zip" :> "dc303" @@ "4/1/14.zip" :> "bfd46")
          @@
          (
           ("4/1/15.zip" :> "c86be" @@ "4/2/0.zip" :> "df45b" @@ "4/2/1.zip" :> "d558e" @@ "4/2/2.zip" :> "a589e")
           @@
           ("4/2/3.zip" :> "f252c" @@ "4/2/4.zip" :> "59e12" @@ "4/2/5.zip" :> "dddbf" @@ "4/2/6.zip" :> "f166d")
          )
         )
        )
       )
       @@
       (
        (
         (
          ("4/2/7.zip" :> "a191c" @@ "4/2/8.zip" :> "83199" @@ "4/2/9.zip" :> "0da01" @@ "4/2/10.zip" :> "684fe")
          @@
          ("4/2/11.zip" :> "e6dcf" @@ "4/2/12.zip" :> "b47f0" @@ "4/2/13.zip" :> "7e646" @@ "4/2/14.zip" :> "31163")
         )
         @@
         (
          ("4/2/15.zip" :> "16228" @@ "4/3/0.zip" :> "a34e0" @@ "4/3/1.zip" :> "f825d" @@ "4/3/2.zip" :> "a46da")
          @@
          (
           ("4/3/3.zip" :> "5e2a6" @@ "4/3/4.zip" :> "9a967" @@ "4/3/5.zip" :> "f0ccf" @@ "4/3/6.zip" :> "d64bc")
           @@
           ("4/3/7.zip" :> "4363e" @@ "4/3/8.zip" :> "cf06c" @@ "4/3/9.zip" :> "795fe" @@ "4/3/10.zip" :> "6662f")
          )
         )
        )
        @@
        (
         (
          ("4/3/11.zip" :> "0bdaf" @@ "4/3/12.zip" :> "d74c4" @@ "4/3/13.zip" :> "47a4e" @@ "4/3/14.zip" :> "48129")
          @@
          (
           ("4/3/15.zip" :> "d890d" @@ "4/4/0.zip" :> "0c853" @@ "4/4/1.zip" :> "b27d7" @@ "4/4/2.zip" :> "7f29e")
           @@
           ("4/4/3.zip" :> "e828f" @@ "4/4/4.zip" :> "d63ea" @@ "4/4/5.zip" :> "6ad72" @@ "4/4/6.zip" :> "e160a")
          )
         )
         @@
         (
          ("4/4/7.zip" :> "06661" @@ "4/4/8.zip" :> "c025a" @@ "4/4/9.zip" :> "15cfe" @@ "4/4/10.zip" :> "b2a73")
          @@
          (
           ("4/4/11.zip" :> "06b2e" @@ "4/4/12.zip" :> "8980f" @@ "4/4/13.zip" :> "13251" @@ "4/4/14.zip" :> "261c5")
           @@
           ("4/4/15.zip" :> "a6240" @@ "4/5/0.zip" :> "43e27" @@ "4/5/1.zip" :> "66c81" @@ "4/5/2.zip" :> "2bec2")
          )
         )
        )
       )
      )
     )
     @@
     (
      (
       (
        (
         (
          ("4/5/3.zip" :> "5a687" @@ "4/5/4.zip" :> "03c31" @@ "4/5/5.zip" :> "ff28b" @@ "4/5/6.zip" :> "077ca")
          @@
          ("4/5/7.zip" :> "05467" @@ "4/5/8.zip" :> "4d6a1" @@ "4/5/9.zip" :> "e2d0c" @@ "4/5/10.zip" :> "3206e")
         )
         @@
         (
          ("4/5/11.zip" :> "b1938" @@ "4/5/12.zip" :> "c7e64" @@ "4/5/13.zip" :> "64c24" @@ "4/5/14.zip" :> "78220")
          @@
          (
           ("4/5/15.zip" :> "dc350" @@ "4/6/0.zip" :> "12961" @@ "4/6/1.zip" :> "a915b" @@ "4/6/2.zip" :> "1225a")
           @@
           ("4/6/3.zip" :> "ad0da" @@ "4/6/4.zip" :> "dcc9a" @@ "4/6/5.zip" :> "98dc4" @@ "4/6/6.zip" :> "0a4e6")
          )
         )
        )
        @@
        (
         (
          ("4/6/7.zip" :> "cd37d" @@ "4/6/8.zip" :> "cea0e" @@ "4/6/9.zip" :> "9b0db" @@ "4/6/10.zip" :> "2680b")
          @@
          ("4/6/11.zip" :> "48458" @@ "4/6/12.zip" :> "58a25" @@ "4/6/13.zip" :> "fe97e" @@ "4/6/14.zip" :> "4a050")
         )
         @@
         (
          ("4/6/15.zip" :> "daacb" @@ "4/7/0.zip" :> "36636" @@ "4/7/1.zip" :> "ae9ad" @@ "4/7/2.zip" :> "9e8ee")
          @@
          (
           ("4/7/3.zip" :> "fca6f" @@ "4/7/4.zip" :> "e89a6" @@ "4/7/5.zip" :> "30f9a" @@ "4/7/6.zip" :> "0bbc5")
           @@
           ("4/7/7.zip" :> "f9f8b" @@ "4/7/8.zip" :> "90ae8" @@ "4/7/9.zip" :> "66f0d" @@ "4/7/10.zip" :> "af3c3")
          )
         )
        )
       )
       @@
       (
        (
         (
          ("4/7/11.zip" :> "5efb3" @@ "4/7/12.zip" :> "f6eb5" @@ "4/7/13.zip" :> "6c424" @@ "4/7/14.zip" :> "96c83")
          @@
          ("4/7/15.zip" :> "f9b23" @@ "4/8/0.zip" :> "a394d" @@ "4/8/1.zip" :> "fc424" @@ "4/8/2.zip" :> "57001")
         )
         @@
         (
          ("4/8/3.zip" :> "3b84a" @@ "4/8/4.zip" :> "28788" @@ "4/8/5.zip" :> "68914" @@ "4/8/6.zip" :> "1207c")
          @@
          (
           ("4/8/7.zip" :> "6ba02" @@ "4/8/8.zip" :> "af326" @@ "4/8/9.zip" :> "1f450" @@ "4/8/10.zip" :> "04d70")
           @@
           ("4/8/11.zip" :> "935ce" @@ "4/8/12.zip" :> "0031b" @@ "4/8/13.zip" :> "3ba5d" @@ "4/8/14.zip" :> "2689d")
          )
         )
        )
        @@
        (
         (
          ("4/8/15.zip" :> "398a4" @@ "4/9/0.zip" :> "a502d" @@ "4/9/1.zip" :> "45c5b" @@ "4/9/2.zip" :> "85bc7")
          @@
          (
           ("4/9/3.zip" :> "10d7a" @@ "4/9/4.zip" :> "09d80" @@ "4/9/5.zip" :> "73949" @@ "4/9/6.zip" :> "b6cb5")
           @@
           ("4/9/7.zip" :> "1f82c" @@ "4/9/8.zip" :> "3968c" @@ "4/9/9.zip" :> "adf1d" @@ "4/9/10.zip" :> "28983")
          )
         )
         @@
         (
          ("4/9/11.zip" :> "580f9" @@ "4/9/12.zip" :> "1d80f" @@ "4/9/13.zip" :> "5d1aa" @@ "4/9/14.zip" :> "f8944")
          @@
          (
           ("4/9/15.zip" :> "12ff3" @@ "4/10/0.zip" :> "ecf19" @@ "4/10/1.zip" :> "23715" @@ "4/10/2.zip" :> "e94af")
           @@
           ("4/10/3.zip" :> "e8d90" @@ "4/10/4.zip" :> "c9a43" @@ "4/10/5.zip" :> "f3543" @@ "4/10/6.zip" :> "b71bf")
          )
         )
        )
       )
      )
      @@
      (
       (
        (
         (
          ("4/10/7.zip" :> "ac6f9" @@ "4/10/8.zip" :> "a756e" @@ "4/10/9.zip" :> "3978c" @@ "4/10/10.zip" :> "cdcda")
          @@
          ("4/10/11.zip" :> "3e8ff" @@ "4/10/12.zip" :> "887fe" @@ "4/10/13.zip" :> "501bd" @@ "4/10/14.zip" :> "8f7e2")
         )
         @@
         (
          ("4/10/15.zip" :> "6d7fd" @@ "4/11/0.zip" :> "ec78f" @@ "4/11/1.zip" :> "e6103" @@ "4/11/2.zip" :> "3719c")
          @@
          (
           ("4/11/3.zip" :> "d1013" @@ "4/11/4.zip" :> "25a65" @@ "4/11/5.zip" :> "96379" @@ "4/11/6.zip" :> "fffa5")
           @@
           ("4/11/7.zip" :> "6b2a8" @@ "4/11/8.zip" :> "b0f28" @@ "4/11/9.zip" :> "b7079" @@ "4/11/10.zip" :> "618cc")
          )
         )
        )
        @@
        (
         (
          ("4/11/11.zip" :> "a1047" @@ "4/11/12.zip" :> "14fef" @@ "4/11/13.zip" :> "3a1ae" @@ "4/11/14.zip" :> "89c9c")
          @@
          (
           ("4/11/15.zip" :> "24d91" @@ "4/12/0.zip" :> "0b664" @@ "4/12/1.zip" :> "7350f" @@ "4/12/2.zip" :> "34869")
           @@
           ("4/12/3.zip" :> "0c2bd" @@ "4/12/4.zip" :> "8c4a3" @@ "4/12/5.zip" :> "44884" @@ "4/12/6.zip" :> "b1b3b")
          )
         )
         @@
         (
          ("4/12/7.zip" :> "8d616" @@ "4/12/8.zip" :> "fb722" @@ "4/12/9.zip" :> "fcef1" @@ "4/12/10.zip" :> "91108")
          @@
          (
           ("4/12/11.zip" :> "beb66" @@ "4/12/12.zip" :> "86ad0" @@ "4/12/13.zip" :> "d3d62" @@ "4/12/14.zip" :> "eb7c1")
           @@
           ("4/12/15.zip" :> "c3547" @@ "4/13/0.zip" :> "bf079" @@ "4/13/1.zip" :> "2fa56" @@ "4/13/2.zip" :> "f5483")
          )
         )
        )
       )
       @@
       (
        (
         (
          ("4/13/3.zip" :> "17599" @@ "4/13/4.zip" :> "790bc" @@ "4/13/5.zip" :> "6acfe" @@ "4/13/6.zip" :> "03005")
          @@
          ("4/13/7.zip" :> "5f113" @@ "4/13/8.zip" :> "00ac7" @@ "4/13/9.zip" :> "4e5d2" @@ "4/13/10.zip" :> "fa42b")
         )
         @@
         (
          ("4/13/11.zip" :> "607d7" @@ "4/13/12.zip" :> "8db21" @@ "4/13/13.zip" :> "4d5c8" @@ "4/13/14.zip" :> "877ac")
          @@
          (
           ("4/13/15.zip" :> "91337" @@ "4/14/0.zip" :> "e9588" @@ "4/14/1.zip" :> "781a6" @@ "4/14/2.zip" :> "47fb7")
           @@
           ("4/14/3.zip" :> "9870a" @@ "4/14/4.zip" :> "0f9d1" @@ "4/14/5.zip" :> "52cf9" @@ "4/14/6.zip" :> "dbfb9")
          )
         )
        )
        @@
        (
         (
          ("4/14/7.zip" :> "c0977" @@ "4/14/8.zip" :> "8332e" @@ "4/14/9.zip" :> "32a51" @@ "4/14/10.zip" :> "26078")
          @@
          (
           ("4/14/11.zip" :> "a18ab" @@ "4/14/12.zip" :> "d8480" @@ "4/14/13.zip" :> "d2fc8" @@ "4/14/14.zip" :> "4f60e")
           @@
           ("4/14/15.zip" :> "5fb6c" @@ "4/15/0.zip" :> "a1626" @@ "4/15/1.zip" :> "e92a8" @@ "4/15/2.zip" :> "831bb")
          )
         )
         @@
         (
          ("4/15/3.zip" :> "fd096" @@ "4/15/4.zip" :> "938ba" @@ "4/15/5.zip" :> "8fe58" @@ "4/15/6.zip" :> "3b251")
          @@
          (
           ("4/15/7.zip" :> "27f32" @@ "4/15/8.zip" :> "da258" @@ "4/15/9.zip" :> "97718" @@ "4/15/10.zip" :> "d44e3")
           @@
           ("4/15/11.zip" :> "f150d" @@ "4/15/12.zip" :> "96dde" @@ "4/15/13.zip" :> "4d6e5" @@ "4/15/14.zip" :> "d64f3")
          )
         )
        )
       )
      )
     )
    )
    @@
    (
     (
      (
       (
        (
         (
          ("4/15/15.zip" :> "dac4d" @@ "5/0/0.zip" :> "c5e49" @@ "5/0/1.zip" :> "6aa34" @@ "5/0/2.zip" :> "f385c")
          @@
          ("5/0/3.zip" :> "5df34" @@ "5/0/4.zip" :> "87f00" @@ "5/0/5.zip" :> "d836e" @@ "5/0/6.zip" :> "4296b")
         )
         @@
         (
          ("5/0/7.zip" :> "e552a" @@ "5/0/8.zip" :> "d8a91" @@ "5/0/9.zip" :> "45edb" @@ "5/0/10.zip" :> "9172d")
          @@
          (
           ("5/0/11.zip" :> "6fa1d" @@ "5/0/12.zip" :> "339fb" @@ "5/0/13.zip" :> "cf3c8" @@ "5/0/14.zip" :> "54dc4")
           @@
           ("5/0/15.zip" :> "f7423" @@ "5/0/16.zip" :> "5dcf8" @@ "5/0/17.zip" :> "16b44" @@ "5/0/18.zip" :> "493e6")
          )
         )
        )
        @@
        (
         (
          ("5/0/19.zip" :> "d1481" @@ "5/0/20.zip" :> "a6728" @@ "5/0/21.zip" :> "15527" @@ "5/0/22.zip" :> "a4bcb")
          @@
          ("5/0/23.zip" :> "cd19c" @@ "5/0/24.zip" :> "e2c56" @@ "5/0/25.zip" :> "04ba4" @@ "5/0/26.zip" :> "de3ad")
         )
         @@
         (
          ("5/0/27.zip" :> "c0842" @@ "5/0/28.zip" :> "8890e" @@ "5/0/29.zip" :> "8d7bc" @@ "5/0/30.zip" :> "a6f06")
          @@
          (
           ("5/0/31.zip" :> "f8f22" @@ "5/1/0.zip" :> "6be21" @@ "5/1/1.zip" :> "5dc9b" @@ "5/1/2.zip" :> "5e977")
           @@
           ("5/1/3.zip" :> "6168b" @@ "5/1/4.zip" :> "c3528" @@ "5/1/5.zip" :> "104ad" @@ "5/1/6.zip" :> "108f8")
          )
         )
        )
       )
       @@
       (
        (
         (
          ("5/1/7.zip" :> "d46fe" @@ "5/1/8.zip" :> "7ea46" @@ "5/1/9.zip" :> "39b94" @@ "5/1/10.zip" :> "11057")
          @@
          ("5/1/11.zip" :> "69dd4" @@ "5/1/12.zip" :> "8d207" @@ "5/1/13.zip" :> "2dca8" @@ "5/1/14.zip" :> "e81fe")
         )
         @@
         (
          ("5/1/15.zip" :> "04a9a" @@ "5/1/16.zip" :> "be95a" @@ "5/1/17.zip" :> "adeb5" @@ "5/1/18.zip" :> "ecefd")
          @@
          (
           ("5/1/19.zip" :> "e639e" @@ "5/1/20.zip" :> "98fdd" @@ "5/1/21.zip" :> "2c604" @@ "5/1/22.zip" :> "9e568")
           @@
           ("5/1/23.zip" :> "de6d1" @@ "5/1/24.zip" :> "c2061" @@ "5/1/25.zip" :> "85c38" @@ "5/1/26.zip" :> "af83c")
          )
         )
        )
        @@
        (
         (
          ("5/1/27.zip" :> "419e8" @@ "5/1/28.zip" :> "e43f7" @@ "5/1/29.zip" :> "7aa2d" @@ "5/1/30.zip" :> "69fed")
          @@
          (
           ("5/1/31.zip" :> "5c1b1" @@ "5/2/0.zip" :> "bf204" @@ "5/2/1.zip" :> "ae4c9" @@ "5/2/2.zip" :> "75546")
           @@
           ("5/2/3.zip" :> "19766" @@ "5/2/4.zip" :> "3ba82" @@ "5/2/5.zip" :> "4ad25" @@ "5/2/6.zip" :> "db9cc")
          )
         )
         @@
         (
          ("5/2/7.zip" :> "7bbcd" @@ "5/2/8.zip" :> "4b4f4" @@ "5/2/9.zip" :> "73adc" @@ "5/2/10.zip" :> "ee91b")
          @@
          (
           ("5/2/11.zip" :> "a034e" @@ "5/2/12.zip" :> "b7e16" @@ "5/2/13.zip" :> "96fc4" @@ "5/2/14.zip" :> "76047")
           @@
           ("5/2/15.zip" :> "b7420" @@ "5/2/16.zip" :> "4bccb" @@ "5/2/17.zip" :> "3c190" @@ "5/2/18.zip" :> "15ab4")
          )
         )
        )
       )
      )
      @@
      (
       (
        (
         (
          ("5/2/19.zip" :> "d259e" @@ "5/2/20.zip" :> "fe44c" @@ "5/2/21.zip" :> "5939e" @@ "5/2/22.zip" :> "cf1f5")
          @@
          ("5/2/23.zip" :> "67831" @@ "5/2/24.zip" :> "72ea1" @@ "5/2/25.zip" :> "c0c9d" @@ "5/2/26.zip" :> "a56e8")
         )
         @@
         (
          ("5/2/27.zip" :> "d64f5" @@ "5/2/28.zip" :> "23601" @@ "5/2/29.zip" :> "5e1c5" @@ "5/2/30.zip" :> "f86b3")
          @@
          (
           ("5/2/31.zip" :> "eb9bf" @@ "5/3/0.zip" :> "94ef7" @@ "5/3/1.zip" :> "81db4" @@ "5/3/2.zip" :> "e74ae")
           @@
           ("5/3/3.zip" :> "202c6" @@ "5/3/4.zip" :> "f23ec" @@ "5/3/5.zip" :> "9d831" @@ "5/3/6.zip" :> "f4753")
          )
         )
        )
        @@
        (
         (
          ("5/3/7.zip" :> "14ab6" @@ "5/3/8.zip" :> "c8b08" @@ "5/3/9.zip" :> "0cae3" @@ "5/3/10.zip" :> "86e91")
          @@
          (
           ("5/3/11.zip" :> "4090c" @@ "5/3/12.zip" :> "3aecb" @@ "5/3/13.zip" :> "565d3" @@ "5/3/14.zip" :> "f604b")
           @@
           ("5/3/15.zip" :> "97d18" @@ "5/3/16.zip" :> "dd012" @@ "5/3/17.zip" :> "554c2" @@ "5/3/18.zip" :> "cae6d")
          )
         )
         @@
         (
          ("5/3/19.zip" :> "c4372" @@ "5/3/20.zip" :> "20aa0" @@ "5/3/21.zip" :> "5f82f" @@ "5/3/22.zip" :> "3bba2")
          @@
          (
           ("5/3/23.zip" :> "1b19f" @@ "5/3/24.zip" :> "8b20c" @@ "5/3/25.zip" :> "4f63f" @@ "5/3/26.zip" :> "fc564")
           @@
           ("5/3/27.zip" :> "3303a" @@ "5/3/28.zip" :> "fcc96" @@ "5/3/29.zip" :> "39f4c" @@ "5/3/30.zip" :> "595e5")
          )
         )
        )
       )
       @@
       (
        (
         (
          ("5/3/31.zip" :> "58c6d" @@ "5/4/0.zip" :> "aa8ab" @@ "5/4/1.zip" :> "73bd5" @@ "5/4/2.zip" :> "68c18")
          @@
          ("5/4/3.zip" :> "9aba0" @@ "5/4/4.zip" :> "a3b6b" @@ "5/4/5.zip" :> "ef862" @@ "5/4/6.zip" :> "2a4f9")
         )
         @@
         (
          ("5/4/7.zip" :> "abbce" @@ "5/4/8.zip" :> "f4857" @@ "5/4/9.zip" :> "73cb5" @@ "5/4/10.zip" :> "d3326")
          @@
          (
           ("5/4/11.zip" :> "43df5" @@ "5/4/12.zip" :> "f032c" @@ "5/4/13.zip" :> "e6cf3" @@ "5/4/14.zip" :> "255d3")
           @@
           ("5/4/15.zip" :> "84f9e" @@ "5/4/16.zip" :> "763a5" @@ "5/4/17.zip" :> "68e25" @@ "5/4/18.zip" :> "7a34b")
          )
         )
        )
        @@
        (
         (
          ("5/4/19.zip" :> "50998" @@ "5/4/20.zip" :> "b1386" @@ "5/4/21.zip" :> "4c5b3" @@ "5/4/22.zip" :> "5fd98")
          @@
          (
           ("5/4/23.zip" :> "fe9b4" @@ "5/4/24.zip" :> "c90fe" @@ "5/4/25.zip" :> "cfb08" @@ "5/4/26.zip" :> "d8de1")
           @@
           ("5/4/27.zip" :> "c3b75" @@ "5/4/28.zip" :> "37f4f" @@ "5/4/29.zip" :> "fc180" @@ "5/4/30.zip" :> "82c52")
          )
         )
         @@
         (
          ("5/4/31.zip" :> "c34fe" @@ "5/5/0.zip" :> "a6ece" @@ "5/5/1.zip" :> "aa0bd" @@ "5/5/2.zip" :> "33562")
          @@
          (
           ("5/5/3.zip" :> "3c91c" @@ "5/5/4.zip" :> "75b05" @@ "5/5/5.zip" :> "f15c0" @@ "5/5/6.zip" :> "382ce")
           @@
           ("5/5/7.zip" :> "a4d99" @@ "5/5/8.zip" :> "acee6" @@ "5/5/9.zip" :> "5e7ce" @@ "5/5/10.zip" :> "e71d0")
          )
         )
        )
       )
      )
     )
     @@
     (
      (
       (
        (
         (
          ("5/5/11.zip" :> "dcb8a" @@ "5/5/12.zip" :> "84ac1" @@ "5/5/13.zip" :> "ae24a" @@ "5/5/14.zip" :> "9c9c2")
          @@
          ("5/5/15.zip" :> "30915" @@ "5/5/16.zip" :> "8e4fa" @@ "5/5/17.zip" :> "27501" @@ "5/5/18.zip" :> "4a7a5")
         )
         @@
         (
          ("5/5/19.zip" :> "b3ba3" @@ "5/5/20.zip" :> "6a84e" @@ "5/5/21.zip" :> "82937" @@ "5/5/22.zip" :> "4f9e6")
          @@
          (
           ("5/5/23.zip" :> "9049a" @@ "5/5/24.zip" :> "633ef" @@ "5/5/25.zip" :> "bf5f4" @@ "5/5/26.zip" :> "279ac")
           @@
           ("5/5/27.zip" :> "e70f0" @@ "5/5/28.zip" :> "ed657" @@ "5/5/29.zip" :> "48e72" @@ "5/5/30.zip" :> "9daca")
          )
         )
        )
        @@
        (
         (
          ("5/5/31.zip" :> "5f9aa" @@ "5/6/0.zip" :> "98427" @@ "5/6/1.zip" :> "28c61" @@ "5/6/2.zip" :> "e4bc1")
          @@
          ("5/6/3.zip" :> "37617" @@ "5/6/4.zip" :> "96b4d" @@ "5/6/5.zip" :> "682b9" @@ "5/6/6.zip" :> "2e3d4")
         )
         @@
         (
          ("5/6/7.zip" :> "dc2fe" @@ "5/6/8.zip" :> "9e7d6" @@ "5/6/9.zip" :> "d8ab8" @@ "5/6/10.zip" :> "d3ea9")
          @@
          (
           ("5/6/11.zip" :> "90914" @@ "5/6/12.zip" :> "26981" @@ "5/6/13.zip" :> "ff67b" @@ "5/6/14.zip" :> "b2817")
           @@
           ("5/6/15.zip" :> "93d8c" @@ "5/6/16.zip" :> "0a474" @@ "5/6/17.zip" :> "910de" @@ "5/6/18.zip" :> "8cdf1")
          )
         )
        )
       )
       @@
       (
        (
         (
          ("5/6/19.zip" :> "36225" @@ "5/6/20.zip" :> "ac73b" @@ "5/6/21.zip" :> "43e55" @@ "5/6/22.zip" :> "0ed3d")
          @@
          ("5/6/23.zip" :> "c8500" @@ "5/6/24.zip" :> "04650" @@ "5/6/25.zip" :> "8e8f5" @@ "5/6/26.zip" :> "20264")
         )
         @@
         (
          ("5/6/27.zip" :> "6b900" @@ "5/6/28.zip" :> "0f299" @@ "5/6/29.zip" :> "24aa0" @@ "5/6/30.zip" :> "894eb")
          @@
          (
           ("5/6/31.zip" :> "c555e" @@ "5/7/0.zip" :> "0491f" @@ "5/7/1.zip" :> "49bee" @@ "5/7/2.zip" :> "8f624")
           @@
           ("5/7/3.zip" :> "31a38" @@ "5/7/4.zip" :> "af293" @@ "5/7/5.zip" :> "9793f" @@ "5/7/6.zip" :> "08be0")
          )
         )
        )
        @@
        (
         (
          ("5/7/7.zip" :> "a8660" @@ "5/7/8.zip" :> "1a6ba" @@ "5/7/9.zip" :> "d8bf1" @@ "5/7/10.zip" :> "ba9d9")
          @@
          (
           ("5/7/11.zip" :> "8e2df" @@ "5/7/12.zip" :> "3cc04" @@ "5/7/13.zip" :> "a1c5f" @@ "5/7/14.zip" :> "0fc01")
           @@
           ("5/7/15.zip" :> "ff12a" @@ "5/7/16.zip" :> "7d699" @@ "5/7/17.zip" :> "4d27b" @@ "5/7/18.zip" :> "83984")
          )
         )
         @@
         (
          ("5/7/19.zip" :> "69575" @@ "5/7/20.zip" :> "27cdf" @@ "5/7/21.zip" :> "e3c30" @@ "5/7/22.zip" :> "cf0f0")
          @@
          (
           ("5/7/23.zip" :> "da60e" @@ "5/7/24.zip" :> "e0988" @@ "5/7/25.zip" :> "8a462" @@ "5/7/26.zip" :> "8e752")
           @@
           ("5/7/27.zip" :> "e9819" @@ "5/7/28.zip" :> "2259c" @@ "5/7/29.zip" :> "18b97" @@ "5/7/30.zip" :> "18223")
          )
         )
        )
       )
      )
      @@
      (
       (
        (
         (
          ("5/7/31.zip" :> "d809f" @@ "5/8/0.zip" :> "e3f30" @@ "5/8/1.zip" :> "94068" @@ "5/8/2.zip" :> "0ebec")
          @@
          ("5/8/3.zip" :> "c9bc8" @@ "5/8/4.zip" :> "d35cb" @@ "5/8/5.zip" :> "0452e" @@ "5/8/6.zip" :> "a0b16")
         )
         @@
         (
          ("5/8/7.zip" :> "fec11" @@ "5/8/8.zip" :> "a5909" @@ "5/8/9.zip" :> "ad951" @@ "5/8/10.zip" :> "dce68")
          @@
          (
           ("5/8/11.zip" :> "0d086" @@ "5/8/12.zip" :> "2bcba" @@ "5/8/13.zip" :> "37f37" @@ "5/8/14.zip" :> "c29f8")
           @@
           ("5/8/15.zip" :> "d835a" @@ "5/8/16.zip" :> "ffc44" @@ "5/8/17.zip" :> "be89d" @@ "5/8/18.zip" :> "42329")
          )
         )
        )
        @@
        (
         (
          ("5/8/19.zip" :> "bdc83" @@ "5/8/20.zip" :> "0c34a" @@ "5/8/21.zip" :> "45220" @@ "5/8/22.zip" :> "291e6")
          @@
          (
           ("5/8/23.zip" :> "e5e6a" @@ "5/8/24.zip" :> "a7336" @@ "5/8/25.zip" :> "bd1b7" @@ "5/8/26.zip" :> "2ec41")
           @@
           ("5/8/27.zip" :> "7dbdc" @@ "5/8/28.zip" :> "cc3f9" @@ "5/8/29.zip" :> "50897" @@ "5/8/30.zip" :> "86e73")
          )
         )
         @@
         (
          ("5/8/31.zip" :> "a0242" @@ "5/9/0.zip" :> "7e162" @@ "5/9/1.zip" :> "bab23" @@ "5/9/2.zip" :> "319aa")
          @@
          (
           ("5/9/3.zip" :> "fd791" @@ "5/9/4.zip" :> "2a47e" @@ "5/9/5.zip" :> "9fa0b" @@ "5/9/6.zip" :> "43712")
           @@
           ("5/9/7.zip" :> "adaad" @@ "5/9/8.zip" :> "11400" @@ "5/9/9.zip" :> "53d6c" @@ "5/9/10.zip" :> "c42d4")
          )
         )
        )
       )
       @@
       (
        (
         (
          ("5/9/11.zip" :> "5048a" @@ "5/9/12.zip" :> "b997f" @@ "5/9/13.zip" :> "e4e5a" @@ "5/9/14.zip" :> "9a58c")
          @@
          ("5/9/15.zip" :> "e220a" @@ "5/9/16.zip" :> "5821e" @@ "5/9/17.zip" :> "487f7" @@ "5/9/18.zip" :> "5b199")
         )
         @@
         (
          ("5/9/19.zip" :> "6a2b6" @@ "5/9/20.zip" :> "a136b" @@ "5/9/21.zip" :> "8c98f" @@ "5/9/22.zip" :> "23ca7")
          @@
          (
           ("5/9/23.zip" :> "e019b" @@ "5/9/24.zip" :> "6d575" @@ "5/9/25.zip" :> "adcde" @@ "5/9/26.zip" :> "1f214")
           @@
           ("5/9/27.zip" :> "c61ca" @@ "5/9/28.zip" :> "6c5bb" @@ "5/9/29.zip" :> "8d714" @@ "5/9/30.zip" :> "4763c")
          )
         )
        )
        @@
        (
         (
          ("5/9/31.zip" :> "711d1" @@ "5/10/0.zip" :> "5b70b" @@ "5/10/1.zip" :> "69892" @@ "5/10/2.zip" :> "88517")
          @@
          (
           ("5/10/3.zip" :> "ffd6a" @@ "5/10/4.zip" :> "cd90b" @@ "5/10/5.zip" :> "ac5e3" @@ "5/10/6.zip" :> "6267d")
           @@
           ("5/10/7.zip" :> "9c9d6" @@ "5/10/8.zip" :> "49ba1" @@ "5/10/9.zip" :> "11080" @@ "5/10/10.zip" :> "56e29")
          )
         )
         @@
         (
          ("5/10/11.zip" :> "70580" @@ "5/10/12.zip" :> "074b7" @@ "5/10/13.zip" :> "fead9" @@ "5/10/14.zip" :> "ca782")
          @@
          (
           ("5/10/15.zip" :> "f2266" @@ "5/10/16.zip" :> "e4521" @@ "5/10/17.zip" :> "4607f" @@ "5/10/18.zip" :> "fde03")
           @@
           ("5/10/19.zip" :> "5fadc" @@ "5/10/20.zip" :> "857cb" @@ "5/10/21.zip" :> "72e6e" @@ "5/10/22.zip" :> "6fa6f")
          )
         )
        )
       )
      )
     )
    )
   )
   @@
   (
    (
     (
      (
       (
        (
         (
          ("5/10/23.zip" :> "b540f" @@ "5/10/24.zip" :> "cb573" @@ "5/10/25.zip" :> "e38cb" @@ "5/10/26.zip" :> "c51c4")
          @@
          ("5/10/27.zip" :> "12367" @@ "5/10/28.zip" :> "541f5" @@ "5/10/29.zip" :> "07ed5" @@ "5/10/30.zip" :> "2e858")
         )
         @@
         (
          ("5/10/31.zip" :> "62741" @@ "5/11/0.zip" :> "7b17a" @@ "5/11/1.zip" :> "81df9" @@ "5/11/2.zip" :> "918cd")
          @@
          (
           ("5/11/3.zip" :> "2184b" @@ "5/11/4.zip" :> "82328" @@ "5/11/5.zip" :> "92fb4" @@ "5/11/6.zip" :> "a36fd")
           @@
           ("5/11/7.zip" :> "10d7e" @@ "5/11/8.zip" :> "58201" @@ "5/11/9.zip" :> "bb1c1" @@ "5/11/10.zip" :> "93248")
          )
         )
        )
        @@
        (
         (
          ("5/11/11.zip" :> "51db2" @@ "5/11/12.zip" :> "cb8ca" @@ "5/11/13.zip" :> "6acef" @@ "5/11/14.zip" :> "99eec")
          @@
          ("5/11/15.zip" :> "8ac47" @@ "5/11/16.zip" :> "16a43" @@ "5/11/17.zip" :> "4cf69" @@ "5/11/18.zip" :> "38c1c")
         )
         @@
         (
          ("5/11/19.zip" :> "fb049" @@ "5/11/20.zip" :> "5da94" @@ "5/11/21.zip" :> "037e9" @@ "5/11/22.zip" :> "59c45")
          @@
          (
           ("5/11/23.zip" :> "aa9ce" @@ "5/11/24.zip" :> "168d1" @@ "5/11/25.zip" :> "642c8" @@ "5/11/26.zip" :> "0ee07")
           @@
           ("5/11/27.zip" :> "bd038" @@ "5/11/28.zip" :> "425b1" @@ "5/11/29.zip" :> "2b7ba" @@ "5/11/30.zip" :> "4fd96")
          )
         )
        )
       )
       @@
       (
        (
         (
          ("5/11/31.zip" :> "53e70" @@ "5/12/0.zip" :> "8361d" @@ "5/12/1.zip" :> "a3554" @@ "5/12/2.zip" :> "9c9ca")
          @@
          ("5/12/3.zip" :> "64472" @@ "5/12/4.zip" :> "6f4fc" @@ "5/12/5.zip" :> "6c561" @@ "5/12/6.zip" :> "4eeb0")
         )
         @@
         (
          ("5/12/7.zip" :> "29611" @@ "5/12/8.zip" :> "8faff" @@ "5/12/9.zip" :> "4adec" @@ "5/12/10.zip" :> "e99a4")
          @@
          (
           ("5/12/11.zip" :> "2474c" @@ "5/12/12.zip" :> "6a4f8" @@ "5/12/13.zip" :> "15e2a" @@ "5/12/14.zip" :> "104b4")
           @@
           ("5/12/15.zip" :> "8a337" @@ "5/12/16.zip" :> "608a6" @@ "5/12/17.zip" :> "00fc6" @@ "5/12/18.zip" :> "97f22")
          )
         )
        )
        @@
        (
         (
          ("5/12/19.zip" :> "86354" @@ "5/12/20.zip" :> "28d5a" @@ "5/12/21.zip" :> "448ad" @@ "5/12/22.zip" :> "c19ff")
          @@
          (
           ("5/12/23.zip" :> "8747b" @@ "5/12/24.zip" :> "edca1" @@ "5/12/25.zip" :> "1e90c" @@ "5/12/26.zip" :> "edf43")
           @@
           ("5/12/27.zip" :> "17044" @@ "5/12/28.zip" :> "9f7cd" @@ "5/12/29.zip" :> "ed8df" @@ "5/12/30.zip" :> "0b530")
          )
         )
         @@
         (
          ("5/12/31.zip" :> "376fd" @@ "5/13/0.zip" :> "d9e1d" @@ "5/13/1.zip" :> "c8ec2" @@ "5/13/2.zip" :> "120fe")
          @@
          (
           ("5/13/3.zip" :> "0ee04" @@ "5/13/4.zip" :> "e5211" @@ "5/13/5.zip" :> "a6a20" @@ "5/13/6.zip" :> "bae43")
           @@
           ("5/13/7.zip" :> "f0dda" @@ "5/13/8.zip" :> "cc858" @@ "5/13/9.zip" :> "b543a" @@ "5/13/10.zip" :> "1c8c4")
          )
         )
        )
       )
      )
      @@
      (
       (
        (
         (
          ("5/13/11.zip" :> "4a201" @@ "5/13/12.zip" :> "c4f21" @@ "5/13/13.zip" :> "257b4" @@ "5/13/14.zip" :> "eda10")
          @@
          ("5/13/15.zip" :> "2dbc8" @@ "5/13/16.zip" :> "5c620" @@ "5/13/17.zip" :> "ec226" @@ "5/13/18.zip" :> "0d12e")
         )
         @@
         (
          ("5/13/19.zip" :> "be415" @@ "5/13/20.zip" :> "d8140" @@ "5/13/21.zip" :> "34608" @@ "5/13/22.zip" :> "f2cf2")
          @@
          (
           ("5/13/23.zip" :> "63446" @@ "5/13/24.zip" :> "27f1f" @@ "5/13/25.zip" :> "01725" @@ "5/13/26.zip" :> "af84d")
           @@
           ("5/13/27.zip" :> "f28e7" @@ "5/13/28.zip" :> "d76a9" @@ "5/13/29.zip" :> "33389" @@ "5/13/30.zip" :> "a00e8")
          )
         )
        )
        @@
        (
         (
          ("5/13/31.zip" :> "c73f8" @@ "5/14/0.zip" :> "0c4a8" @@ "5/14/1.zip" :> "02677" @@ "5/14/2.zip" :> "86e95")
          @@
          ("5/14/3.zip" :> "ac259" @@ "5/14/4.zip" :> "ba049" @@ "5/14/5.zip" :> "e0215" @@ "5/14/6.zip" :> "1c226")
         )
         @@
         (
          ("5/14/7.zip" :> "8be5c" @@ "5/14/8.zip" :> "65e97" @@ "5/14/9.zip" :> "880d6" @@ "5/14/10.zip" :> "3c104")
          @@
          (
           ("5/14/11.zip" :> "f935a" @@ "5/14/12.zip" :> "753f9" @@ "5/14/13.zip" :> "4d7c2" @@ "5/14/14.zip" :> "5784b")
           @@
           ("5/14/15.zip" :> "a04be" @@ "5/14/16.zip" :> "2d682" @@ "5/14/17.zip" :> "ddc7a" @@ "5/14/18.zip" :> "4340d")
          )
         )
        )
       )
       @@
       (
        (
         (
          ("5/14/19.zip" :> "fb003" @@ "5/14/20.zip" :> "0e77f" @@ "5/14/21.zip" :> "f2ea8" @@ "5/14/22.zip" :> "85d0a")
          @@
          ("5/14/23.zip" :> "bcf97" @@ "5/14/24.zip" :> "a84a2" @@ "5/14/25.zip" :> "0087e" @@ "5/14/26.zip" :> "8f523")
         )
         @@
         (
          ("5/14/27.zip" :> "3e8b1" @@ "5/14/28.zip" :> "b7ad5" @@ "5/14/29.zip" :> "cd6ab" @@ "5/14/30.zip" :> "ee18f")
          @@
          (
           ("5/14/31.zip" :> "38d0b" @@ "5/15/0.zip" :> "61a25" @@ "5/15/1.zip" :> "83edd" @@ "5/15/2.zip" :> "a93c0")
           @@
           ("5/15/3.zip" :> "28b6c" @@ "5/15/4.zip" :> "1566e" @@ "5/15/5.zip" :> "75a9d" @@ "5/15/6.zip" :> "f5c0d")
          )
         )
        )
        @@
        (
         (
          ("5/15/7.zip" :> "da303" @@ "5/15/8.zip" :> "a8024" @@ "5/15/9.zip" :> "d5a91" @@ "5/15/10.zip" :> "4fa89")
          @@
          (
           ("5/15/11.zip" :> "84199" @@ "5/15/12.zip" :> "a6896" @@ "5/15/13.zip" :> "114d0" @@ "5/15/14.zip" :> "8fe6c")
           @@
           ("5/15/15.zip" :> "e5314" @@ "5/15/16.zip" :> "fa478" @@ "5/15/17.zip" :> "c6bdf" @@ "5/15/18.zip" :> "80edd")
          )
         )
         @@
         (
          ("5/15/19.zip" :> "9c782" @@ "5/15/20.zip" :> "8607e" @@ "5/15/21.zip" :> "eae94" @@ "5/15/22.zip" :> "eac5d")
          @@
          (
           ("5/15/23.zip" :> "7cd2f" @@ "5/15/24.zip" :> "ea8b3" @@ "5/15/25.zip" :> "e3173" @@ "5/15/26.zip" :> "ca7e2")
           @@
           ("5/15/27.zip" :> "ffedc" @@ "5/15/28.zip" :> "b7951" @@ "5/15/29.zip" :> "a6a69" @@ "5/15/30.zip" :> "808c2")
          )
         )
        )
       )
      )
     )
     @@
     (
      (
       (
        (
         (
          ("5/15/31.zip" :> "27d74" @@ "5/16/0.zip" :> "110bb" @@ "5/16/1.zip" :> "39b5d" @@ "5/16/2.zip" :> "e04c5")
          @@
          ("5/16/3.zip" :> "cc4dd" @@ "5/16/4.zip" :> "0918d" @@ "5/16/5.zip" :> "736a9" @@ "5/16/6.zip" :> "973a6")
         )
         @@
         (
          ("5/16/7.zip" :> "11ad9" @@ "5/16/8.zip" :> "20acb" @@ "5/16/9.zip" :> "99c17" @@ "5/16/10.zip" :> "76be4")
          @@
          (
           ("5/16/11.zip" :> "ba780" @@ "5/16/12.zip" :> "db0ab" @@ "5/16/13.zip" :> "918ab" @@ "5/16/14.zip" :> "a1d1e")
           @@
           ("5/16/15.zip" :> "1caf4" @@ "5/16/16.zip" :> "f1f18" @@ "5/16/17.zip" :> "46291" @@ "5/16/18.zip" :> "ff58f")
          )
         )
        )
        @@
        (
         (
          ("5/16/19.zip" :> "b2491" @@ "5/16/20.zip" :> "fa740" @@ "5/16/21.zip" :> "50f3f" @@ "5/16/22.zip" :> "e0b5c")
          @@
          ("5/16/23.zip" :> "95200" @@ "5/16/24.zip" :> "115ab" @@ "5/16/25.zip" :> "88d75" @@ "5/16/26.zip" :> "5b7c9")
         )
         @@
         (
          ("5/16/27.zip" :> "9ebda" @@ "5/16/28.zip" :> "037e9" @@ "5/16/29.zip" :> "6eb1d" @@ "5/16/30.zip" :> "9968e")
          @@
          (
           ("5/16/31.zip" :> "ebd35" @@ "5/17/0.zip" :> "c1ced" @@ "5/17/1.zip" :> "4d45f" @@ "5/17/2.zip" :> "6cd01")
           @@
           ("5/17/3.zip" :> "17a52" @@ "5/17/4.zip" :> "5124a" @@ "5/17/5.zip" :> "395ee" @@ "5/17/6.zip" :> "2aa06")
          )
         )
        )
       )
       @@
       (
        (
         (
          ("5/17/7.zip" :> "f0a8b" @@ "5/17/8.zip" :> "07573" @@ "5/17/9.zip" :> "3f4cb" @@ "5/17/10.zip" :> "ccb22")
          @@
          ("5/17/11.zip" :> "08133" @@ "5/17/12.zip" :> "352ce" @@ "5/17/13.zip" :> "f7c44" @@ "5/17/14.zip" :> "2ae3a")
         )
         @@
         (
          ("5/17/15.zip" :> "5813c" @@ "5/17/16.zip" :> "0eac2" @@ "5/17/17.zip" :> "f6ea1" @@ "5/17/18.zip" :> "c69a0")
          @@
          (
           ("5/17/19.zip" :> "6a0ec" @@ "5/17/20.zip" :> "a1d8a" @@ "5/17/21.zip" :> "8987f" @@ "5/17/22.zip" :> "b3f53")
           @@
           ("5/17/23.zip" :> "718f5" @@ "5/17/24.zip" :> "ef0c2" @@ "5/17/25.zip" :> "cd07d" @@ "5/17/26.zip" :> "fbe30")
          )
         )
        )
        @@
        (
         (
          ("5/17/27.zip" :> "dbf71" @@ "5/17/28.zip" :> "0ae8e" @@ "5/17/29.zip" :> "5e2f4" @@ "5/17/30.zip" :> "59fa9")
          @@
          (
           ("5/17/31.zip" :> "d32a5" @@ "5/18/0.zip" :> "f22d2" @@ "5/18/1.zip" :> "fab3a" @@ "5/18/2.zip" :> "842e3")
           @@
           ("5/18/3.zip" :> "d20b3" @@ "5/18/4.zip" :> "85fb7" @@ "5/18/5.zip" :> "d0db4" @@ "5/18/6.zip" :> "1586f")
          )
         )
         @@
         (
          ("5/18/7.zip" :> "a6c42" @@ "5/18/8.zip" :> "35a39" @@ "5/18/9.zip" :> "0bd58" @@ "5/18/10.zip" :> "db61f")
          @@
          (
           ("5/18/11.zip" :> "bfe8c" @@ "5/18/12.zip" :> "66bb8" @@ "5/18/13.zip" :> "d25cb" @@ "5/18/14.zip" :> "fee87")
           @@
           ("5/18/15.zip" :> "0f671" @@ "5/18/16.zip" :> "827fc" @@ "5/18/17.zip" :> "97eeb" @@ "5/18/18.zip" :> "00692")
          )
         )
        )
       )
      )
      @@
      (
       (
        (
         (
          ("5/18/19.zip" :> "d6276" @@ "5/18/20.zip" :> "2e60a" @@ "5/18/21.zip" :> "27f35" @@ "5/18/22.zip" :> "12106")
          @@
          ("5/18/23.zip" :> "fafe8" @@ "5/18/24.zip" :> "0c759" @@ "5/18/25.zip" :> "af761" @@ "5/18/26.zip" :> "6d919")
         )
         @@
         (
          ("5/18/27.zip" :> "7339a" @@ "5/18/28.zip" :> "31af1" @@ "5/18/29.zip" :> "e2a08" @@ "5/18/30.zip" :> "d22b8")
          @@
          (
           ("5/18/31.zip" :> "b1dce" @@ "5/19/0.zip" :> "92742" @@ "5/19/1.zip" :> "11359" @@ "5/19/2.zip" :> "a30c3")
           @@
           ("5/19/3.zip" :> "cb34d" @@ "5/19/4.zip" :> "08c44" @@ "5/19/5.zip" :> "8a7e9" @@ "5/19/6.zip" :> "f3751")
          )
         )
        )
        @@
        (
         (
          ("5/19/7.zip" :> "920ff" @@ "5/19/8.zip" :> "d9ae9" @@ "5/19/9.zip" :> "df0e4" @@ "5/19/10.zip" :> "57414")
          @@
          (
           ("5/19/11.zip" :> "45b77" @@ "5/19/12.zip" :> "ef457" @@ "5/19/13.zip" :> "ded7e" @@ "5/19/14.zip" :> "cbaf2")
           @@
           ("5/19/15.zip" :> "fed8d" @@ "5/19/16.zip" :> "33f27" @@ "5/19/17.zip" :> "d4f45" @@ "5/19/18.zip" :> "52282")
          )
         )
         @@
         (
          ("5/19/19.zip" :> "a3dba" @@ "5/19/20.zip" :> "a6212" @@ "5/19/21.zip" :> "20533" @@ "5/19/22.zip" :> "9cda1")
          @@
          (
           ("5/19/23.zip" :> "a5523" @@ "5/19/24.zip" :> "ac759" @@ "5/19/25.zip" :> "a72b9" @@ "5/19/26.zip" :> "fa689")
           @@
           ("5/19/27.zip" :> "595a0" @@ "5/19/28.zip" :> "e330c" @@ "5/19/29.zip" :> "0cdde" @@ "5/19/30.zip" :> "da99d")
          )
         )
        )
       )
       @@
       (
        (
         (
          ("5/19/31.zip" :> "573dc" @@ "5/20/0.zip" :> "7dfd0" @@ "5/20/1.zip" :> "44836" @@ "5/20/2.zip" :> "dd94f")
          @@
          ("5/20/3.zip" :> "130f5" @@ "5/20/4.zip" :> "1eb61" @@ "5/20/5.zip" :> "7d222" @@ "5/20/6.zip" :> "97e26")
         )
         @@
         (
          ("5/20/7.zip" :> "32170" @@ "5/20/8.zip" :> "aa97d" @@ "5/20/9.zip" :> "2cf1d" @@ "5/20/10.zip" :> "9888c")
          @@
          (
           ("5/20/11.zip" :> "686fa" @@ "5/20/12.zip" :> "03724" @@ "5/20/13.zip" :> "2aaa1" @@ "5/20/14.zip" :> "021e1")
           @@
           ("5/20/15.zip" :> "e5b19" @@ "5/20/16.zip" :> "3b8dc" @@ "5/20/17.zip" :> "e9fff" @@ "5/20/18.zip" :> "d7a73")
          )
         )
        )
        @@
        (
         (
          ("5/20/19.zip" :> "26f1b" @@ "5/20/20.zip" :> "c3d15" @@ "5/20/21.zip" :> "511ce" @@ "5/20/22.zip" :> "7a793")
          @@
          (
           ("5/20/23.zip" :> "22326" @@ "5/20/24.zip" :> "98e6e" @@ "5/20/25.zip" :> "1f4f0" @@ "5/20/26.zip" :> "b249e")
           @@
           ("5/20/27.zip" :> "032f1" @@ "5/20/28.zip" :> "74e07" @@ "5/20/29.zip" :> "d0d21" @@ "5/20/30.zip" :> "e8961")
          )
         )
         @@
         (
          ("5/20/31.zip" :> "0327a" @@ "5/21/0.zip" :> "439bb" @@ "5/21/1.zip" :> "4c8b1" @@ "5/21/2.zip" :> "0ba84")
          @@
          (
           ("5/21/3.zip" :> "04852" @@ "5/21/4.zip" :> "90cf4" @@ "5/21/5.zip" :> "d3268" @@ "5/21/6.zip" :> "d94aa")
           @@
           ("5/21/7.zip" :> "37e8b" @@ "5/21/8.zip" :> "41391" @@ "5/21/9.zip" :> "f1c2e" @@ "5/21/10.zip" :> "d0c40")
          )
         )
        )
       )
      )
     )
    )
    @@
    (
     (
      (
       (
        (
         (
          ("5/21/11.zip" :> "919e6" @@ "5/21/12.zip" :> "e2f4f" @@ "5/21/13.zip" :> "451eb" @@ "5/21/14.zip" :> "bdd83")
          @@
          ("5/21/15.zip" :> "91608" @@ "5/21/16.zip" :> "abe01" @@ "5/21/17.zip" :> "bf4f8" @@ "5/21/18.zip" :> "2d0f6")
         )
         @@
         (
          ("5/21/19.zip" :> "4e729" @@ "5/21/20.zip" :> "7ad38" @@ "5/21/21.zip" :> "b15a8" @@ "5/21/22.zip" :> "d590d")
          @@
          (
           ("5/21/23.zip" :> "259cf" @@ "5/21/24.zip" :> "47339" @@ "5/21/25.zip" :> "5f427" @@ "5/21/26.zip" :> "0fed7")
           @@
           ("5/21/27.zip" :> "ed2e3" @@ "5/21/28.zip" :> "73d5b" @@ "5/21/29.zip" :> "a1b4e" @@ "5/21/30.zip" :> "4dc5b")
          )
         )
        )
        @@
        (
         (
          ("5/21/31.zip" :> "c082c" @@ "5/22/0.zip" :> "a1938" @@ "5/22/1.zip" :> "738df" @@ "5/22/2.zip" :> "0ea10")
          @@
          ("5/22/3.zip" :> "44c68" @@ "5/22/4.zip" :> "5c04f" @@ "5/22/5.zip" :> "3be9a" @@ "5/22/6.zip" :> "046bf")
         )
         @@
         (
          ("5/22/7.zip" :> "6f628" @@ "5/22/8.zip" :> "1722b" @@ "5/22/9.zip" :> "5ee3e" @@ "5/22/10.zip" :> "2926b")
          @@
          (
           ("5/22/11.zip" :> "1b640" @@ "5/22/12.zip" :> "6f509" @@ "5/22/13.zip" :> "2c3b4" @@ "5/22/14.zip" :> "832b4")
           @@
           ("5/22/15.zip" :> "83832" @@ "5/22/16.zip" :> "81649" @@ "5/22/17.zip" :> "bd348" @@ "5/22/18.zip" :> "a5925")
          )
         )
        )
       )
       @@
       (
        (
         (
          ("5/22/19.zip" :> "b9a34" @@ "5/22/20.zip" :> "3db5b" @@ "5/22/21.zip" :> "a752a" @@ "5/22/22.zip" :> "9c9ed")
          @@
          ("5/22/23.zip" :> "3943c" @@ "5/22/24.zip" :> "57066" @@ "5/22/25.zip" :> "5dcb4" @@ "5/22/26.zip" :> "a1817")
         )
         @@
         (
          ("5/22/27.zip" :> "da4ad" @@ "5/22/28.zip" :> "e6c35" @@ "5/22/29.zip" :> "f420b" @@ "5/22/30.zip" :> "64a27")
          @@
          (
           ("5/22/31.zip" :> "b7d86" @@ "5/23/0.zip" :> "7e4e4" @@ "5/23/1.zip" :> "63559" @@ "5/23/2.zip" :> "33153")
           @@
           ("5/23/3.zip" :> "08414" @@ "5/23/4.zip" :> "52702" @@ "5/23/5.zip" :> "e30ee" @@ "5/23/6.zip" :> "b467a")
          )
         )
        )
        @@
        (
         (
          ("5/23/7.zip" :> "dd820" @@ "5/23/8.zip" :> "aa395" @@ "5/23/9.zip" :> "73356" @@ "5/23/10.zip" :> "70a5e")
          @@
          (
           ("5/23/11.zip" :> "d5967" @@ "5/23/12.zip" :> "4a956" @@ "5/23/13.zip" :> "5d2ae" @@ "5/23/14.zip" :> "25c02")
           @@
           ("5/23/15.zip" :> "7326e" @@ "5/23/16.zip" :> "62791" @@ "5/23/17.zip" :> "7cbe7" @@ "5/23/18.zip" :> "549f6")
          )
         )
         @@
         (
          ("5/23/19.zip" :> "55860" @@ "5/23/20.zip" :> "8267f" @@ "5/23/21.zip" :> "86946" @@ "5/23/22.zip" :> "5c3f4")
          @@
          (
           ("5/23/23.zip" :> "b1699" @@ "5/23/24.zip" :> "1926f" @@ "5/23/25.zip" :> "1c3ce" @@ "5/23/26.zip" :> "de1e6")
           @@
           ("5/23/27.zip" :> "4b943" @@ "5/23/28.zip" :> "b9b71" @@ "5/23/29.zip" :> "c4559" @@ "5/23/30.zip" :> "5ce95")
          )
         )
        )
       )
      )
      @@
      (
       (
        (
         (
          ("5/23/31.zip" :> "a30ae" @@ "5/24/0.zip" :> "f582f" @@ "5/24/1.zip" :> "ff903" @@ "5/24/2.zip" :> "d15a8")
          @@
          ("5/24/3.zip" :> "1d8cb" @@ "5/24/4.zip" :> "52c4e" @@ "5/24/5.zip" :> "acc12" @@ "5/24/6.zip" :> "62fa5")
         )
         @@
         (
          ("5/24/7.zip" :> "a6a58" @@ "5/24/8.zip" :> "f15be" @@ "5/24/9.zip" :> "0833a" @@ "5/24/10.zip" :> "96c6e")
          @@
          (
           ("5/24/11.zip" :> "d9fab" @@ "5/24/12.zip" :> "da53e" @@ "5/24/13.zip" :> "df1f2" @@ "5/24/14.zip" :> "3fde4")
           @@
           ("5/24/15.zip" :> "bdba6" @@ "5/24/16.zip" :> "d9ae4" @@ "5/24/17.zip" :> "2658a" @@ "5/24/18.zip" :> "dcdb9")
          )
         )
        )
        @@
        (
         (
          ("5/24/19.zip" :> "2338e" @@ "5/24/20.zip" :> "5912b" @@ "5/24/21.zip" :> "856ea" @@ "5/24/22.zip" :> "52e7d")
          @@
          (
           ("5/24/23.zip" :> "8fabe" @@ "5/24/24.zip" :> "3895b" @@ "5/24/25.zip" :> "4a99d" @@ "5/24/26.zip" :> "16b6f")
           @@
           ("5/24/27.zip" :> "c00f4" @@ "5/24/28.zip" :> "8bbf6" @@ "5/24/29.zip" :> "66898" @@ "5/24/30.zip" :> "a242c")
          )
         )
         @@
         (
          ("5/24/31.zip" :> "ee45b" @@ "5/25/0.zip" :> "3180c" @@ "5/25/1.zip" :> "52bd9" @@ "5/25/2.zip" :> "fa92c")
          @@
          (
           ("5/25/3.zip" :> "32f93" @@ "5/25/4.zip" :> "1ccf9" @@ "5/25/5.zip" :> "427b5" @@ "5/25/6.zip" :> "30e2f")
           @@
           ("5/25/7.zip" :> "461c4" @@ "5/25/8.zip" :> "341ca" @@ "5/25/9.zip" :> "148b9" @@ "5/25/10.zip" :> "6d20b")
          )
         )
        )
       )
       @@
       (
        (
         (
          ("5/25/11.zip" :> "906c5" @@ "5/25/12.zip" :> "09d5a" @@ "5/25/13.zip" :> "7d476" @@ "5/25/14.zip" :> "3bb84")
          @@
          ("5/25/15.zip" :> "881f4" @@ "5/25/16.zip" :> "61f87" @@ "5/25/17.zip" :> "8d373" @@ "5/25/18.zip" :> "69826")
         )
         @@
         (
          ("5/25/19.zip" :> "edba4" @@ "5/25/20.zip" :> "77ef5" @@ "5/25/21.zip" :> "eb710" @@ "5/25/22.zip" :> "5642d")
          @@
          (
           ("5/25/23.zip" :> "7a641" @@ "5/25/24.zip" :> "20db5" @@ "5/25/25.zip" :> "09968" @@ "5/25/26.zip" :> "75db7")
           @@
           ("5/25/27.zip" :> "3bc5f" @@ "5/25/28.zip" :> "4728e" @@ "5/25/29.zip" :> "64edd" @@ "5/25/30.zip" :> "182f7")
          )
         )
        )
        @@
        (
         (
          ("5/25/31.zip" :> "02261" @@ "5/26/0.zip" :> "cad35" @@ "5/26/1.zip" :> "d5143" @@ "5/26/2.zip" :> "e5d6b")
          @@
          (
           ("5/26/3.zip" :> "c75b5" @@ "5/26/4.zip" :> "158d8" @@ "5/26/5.zip" :> "f9e35" @@ "5/26/6.zip" :> "d8259")
           @@
           ("5/26/7.zip" :> "222c0" @@ "5/26/8.zip" :> "214fc" @@ "5/26/9.zip" :> "6c246" @@ "5/26/10.zip" :> "52358")
          )
         )
         @@
         (
          ("5/26/11.zip" :> "146c2" @@ "5/26/12.zip" :> "4ac16" @@ "5/26/13.zip" :> "86f17" @@ "5/26/14.zip" :> "1c63b")
          @@
          (
           ("5/26/15.zip" :> "0cdd1" @@ "5/26/16.zip" :> "fd318" @@ "5/26/17.zip" :> "08bbb" @@ "5/26/18.zip" :> "c4cdb")
           @@
           ("5/26/19.zip" :> "a2d39" @@ "5/26/20.zip" :> "c9975" @@ "5/26/21.zip" :> "6a7a0" @@ "5/26/22.zip" :> "1d6bd")
          )
         )
        )
       )
      )
     )
     @@
     (
      (
       (
        (
         (
          ("5/26/23.zip" :> "f2dde" @@ "5/26/24.zip" :> "ed50d" @@ "5/26/25.zip" :> "e65e5" @@ "5/26/26.zip" :> "d3bde")
          @@
          ("5/26/27.zip" :> "c9466" @@ "5/26/28.zip" :> "b235b" @@ "5/26/29.zip" :> "ffae1" @@ "5/26/30.zip" :> "3ee41")
         )
         @@
         (
          ("5/26/31.zip" :> "5ab90" @@ "5/27/0.zip" :> "b6195" @@ "5/27/1.zip" :> "e56a8" @@ "5/27/2.zip" :> "ab6f4")
          @@
          (
           ("5/27/3.zip" :> "f5f17" @@ "5/27/4.zip" :> "3daa0" @@ "5/27/5.zip" :> "7f9df" @@ "5/27/6.zip" :> "9c611")
           @@
           ("5/27/7.zip" :> "fc8a2" @@ "5/27/8.zip" :> "e3f78" @@ "5/27/9.zip" :> "90056" @@ "5/27/10.zip" :> "a33b9")
          )
         )
        )
        @@
        (
         (
          ("5/27/11.zip" :> "966c8" @@ "5/27/12.zip" :> "9981a" @@ "5/27/13.zip" :> "5604b" @@ "5/27/14.zip" :> "3973a")
          @@
          ("5/27/15.zip" :> "57c13" @@ "5/27/16.zip" :> "027aa" @@ "5/27/17.zip" :> "c2a7c" @@ "5/27/18.zip" :> "bc554")
         )
         @@
         (
          ("5/27/19.zip" :> "f7195" @@ "5/27/20.zip" :> "fb5e2" @@ "5/27/21.zip" :> "f957d" @@ "5/27/22.zip" :> "9a386")
          @@
          (
           ("5/27/23.zip" :> "31340" @@ "5/27/24.zip" :> "78542" @@ "5/27/25.zip" :> "f5ea8" @@ "5/27/26.zip" :> "43d84")
           @@
           ("5/27/27.zip" :> "9eab0" @@ "5/27/28.zip" :> "d3e8f" @@ "5/27/29.zip" :> "4a9e5" @@ "5/27/30.zip" :> "25b54")
          )
         )
        )
       )
       @@
       (
        (
         (
          ("5/27/31.zip" :> "464ee" @@ "5/28/0.zip" :> "00a61" @@ "5/28/1.zip" :> "9ce81" @@ "5/28/2.zip" :> "1f250")
          @@
          ("5/28/3.zip" :> "0f005" @@ "5/28/4.zip" :> "10a31" @@ "5/28/5.zip" :> "80df4" @@ "5/28/6.zip" :> "aae20")
         )
         @@
         (
          ("5/28/7.zip" :> "0c549" @@ "5/28/8.zip" :> "91320" @@ "5/28/9.zip" :> "cee31" @@ "5/28/10.zip" :> "b52c6")
          @@
          (
           ("5/28/11.zip" :> "d2856" @@ "5/28/12.zip" :> "8fb78" @@ "5/28/13.zip" :> "ea10a" @@ "5/28/14.zip" :> "a1c31")
           @@
           ("5/28/15.zip" :> "acc3d" @@ "5/28/16.zip" :> "8224a" @@ "5/28/17.zip" :> "cf5b5" @@ "5/28/18.zip" :> "5a90c")
          )
         )
        )
        @@
        (
         (
          ("5/28/19.zip" :> "f6f5a" @@ "5/28/20.zip" :> "3458b" @@ "5/28/21.zip" :> "cd796" @@ "5/28/22.zip" :> "23fe2")
          @@
          (
           ("5/28/23.zip" :> "702a4" @@ "5/28/24.zip" :> "2c352" @@ "5/28/25.zip" :> "08597" @@ "5/28/26.zip" :> "37567")
           @@
           ("5/28/27.zip" :> "a84ef" @@ "5/28/28.zip" :> "e7811" @@ "5/28/29.zip" :> "cdc90" @@ "5/28/30.zip" :> "2a963")
          )
         )
         @@
         (
          ("5/28/31.zip" :> "da44d" @@ "5/29/0.zip" :> "4e7b1" @@ "5/29/1.zip" :> "84a90" @@ "5/29/2.zip" :> "5becf")
          @@
          (
           ("5/29/3.zip" :> "73857" @@ "5/29/4.zip" :> "cba4a" @@ "5/29/5.zip" :> "79926" @@ "5/29/6.zip" :> "03124")
           @@
           ("5/29/7.zip" :> "e8136" @@ "5/29/8.zip" :> "9661d" @@ "5/29/9.zip" :> "7eb22" @@ "5/29/10.zip" :> "acbec")
          )
         )
        )
       )
      )
      @@
      (
       (
        (
         (
          ("5/29/11.zip" :> "fa51c" @@ "5/29/12.zip" :> "646fa" @@ "5/29/13.zip" :> "36add" @@ "5/29/14.zip" :> "ff4c2")
          @@
          ("5/29/15.zip" :> "c4b81" @@ "5/29/16.zip" :> "0d551" @@ "5/29/17.zip" :> "b3c7f" @@ "5/29/18.zip" :> "4ad7d")
         )
         @@
         (
          ("5/29/19.zip" :> "f2ee0" @@ "5/29/20.zip" :> "858fc" @@ "5/29/21.zip" :> "9330b" @@ "5/29/22.zip" :> "94b17")
          @@
          (
           ("5/29/23.zip" :> "abbd1" @@ "5/29/24.zip" :> "6e226" @@ "5/29/25.zip" :> "7d7da" @@ "5/29/26.zip" :> "0c438")
           @@
           ("5/29/27.zip" :> "362a8" @@ "5/29/28.zip" :> "5a893" @@ "5/29/29.zip" :> "85c4a" @@ "5/29/30.zip" :> "006fe")
          )
         )
        )
        @@
        (
         (
          ("5/29/31.zip" :> "9e32a" @@ "5/30/0.zip" :> "24765" @@ "5/30/1.zip" :> "ec74b" @@ "5/30/2.zip" :> "fc0de")
          @@
          (
           ("5/30/3.zip" :> "d878e" @@ "5/30/4.zip" :> "31a54" @@ "5/30/5.zip" :> "e7a41" @@ "5/30/6.zip" :> "a10af")
           @@
           ("5/30/7.zip" :> "97c23" @@ "5/30/8.zip" :> "1b9c9" @@ "5/30/9.zip" :> "12150" @@ "5/30/10.zip" :> "d3848")
          )
         )
         @@
         (
          ("5/30/11.zip" :> "b6cb7" @@ "5/30/12.zip" :> "00091" @@ "5/30/13.zip" :> "8f6e5" @@ "5/30/14.zip" :> "ae1e3")
          @@
          (
           ("5/30/15.zip" :> "85d63" @@ "5/30/16.zip" :> "6e39e" @@ "5/30/17.zip" :> "aed85" @@ "5/30/18.zip" :> "10c46")
           @@
           ("5/30/19.zip" :> "40bbd" @@ "5/30/20.zip" :> "c3ead" @@ "5/30/21.zip" :> "a9223" @@ "5/30/22.zip" :> "0e7ef")
          )
         )
        )
       )
       @@
       (
        (
         (
          ("5/30/23.zip" :> "56790" @@ "5/30/24.zip" :> "2c65d" @@ "5/30/25.zip" :> "fb7ea" @@ "5/30/26.zip" :> "e4430")
          @@
          ("5/30/27.zip" :> "75c2d" @@ "5/30/28.zip" :> "dda4a" @@ "5/30/29.zip" :> "2c1d5" @@ "5/30/30.zip" :> "10e44")
         )
         @@
         (
          ("5/30/31.zip" :> "4fa57" @@ "5/31/0.zip" :> "0a57d" @@ "5/31/1.zip" :> "975c8" @@ "5/31/2.zip" :> "82bb8")
          @@
          (
           ("5/31/3.zip" :> "0e6ac" @@ "5/31/4.zip" :> "38450" @@ "5/31/5.zip" :> "fc547" @@ "5/31/6.zip" :> "8de94")
           @@
           ("5/31/7.zip" :> "a69c5" @@ "5/31/8.zip" :> "d66d1" @@ "5/31/9.zip" :> "9c7e2" @@ "5/31/10.zip" :> "2aa79")
          )
         )
        )
        @@
        (
         (
          ("5/31/11.zip" :> "a685d" @@ "5/31/12.zip" :> "03f1e" @@ "5/31/13.zip" :> "3d35d" @@ "5/31/14.zip" :> "706c8")
          @@
          (
           ("5/31/15.zip" :> "9cd40" @@ "5/31/16.zip" :> "96d5b" @@ "5/31/17.zip" :> "e993a" @@ "5/31/18.zip" :> "0d63f")
           @@
           ("5/31/19.zip" :> "19def" @@ "5/31/20.zip" :> "878f9" @@ "5/31/21.zip" :> "27696" @@ "5/31/22.zip" :> "89dde")
          )
         )
         @@
         (
          ("5/31/23.zip" :> "a9423" @@ "5/31/24.zip" :> "2136b" @@ "5/31/25.zip" :> "df10c" @@ "5/31/26.zip" :> "c73c9")
          @@
          (
           ("5/31/27.zip" :> "85351" @@ "5/31/28.zip" :> "1c1e8" @@ "5/31/29.zip" :> "bbcf7" @@ "5/31/30.zip" :> "95d35")
           @@
           ("5/31/31.zip" :> "ede4a")
          )
         )
        )
       )
      )
     )
    )
   )
  )

\* tilePath with t.X formatted twice.
tilePathXTwice(t) ==
  ToString(t.Z) \o "/" \o ToString(t.X) \o "/" \o ToString(t.X) \o ".zip"

\* fmt.Sprintf("%d/%d/%d.zip", t.Z, t.X, t.Y)
tilePath(t) ==
  ToString(t.Z) \o "/" \o ToString(t.X) \o "/" \o ToString(t.Y) \o ".zip"

\* computeKey with the build id put ahead of the hash prefix.
computeKeyBuildIDFirst(buildID, t) ==
  LET key == tilePath(t)
      hashPrefix == md5Hex5[key]
  IN  buildID \o "/" \o hashPrefix \o "/" \o key

computeKey(buildID, t) ==
  LET key == tilePath(t)
      hashPrefix == md5Hex5[key]
  IN  hashPrefix \o "/" \o buildID \o "/" \o key

(***************************************************************************)
(* The S3 DeleteObjects call, seen from the program: it fails as a whole,   *)
(* or returns a result whose Deleted and Errors lists the program only      *)
(* measures.  A result is << len(Deleted), len(Errors) >>.  The results     *)
(* explored for a call of n keys: every key reported, with none, 10 or 11   *)
(* of them (all of them, when there are fewer) as errors; nothing reported; *)
(* one report too many.                                                     *)
(***************************************************************************)
Min(a, b) == IF a <= b THEN a ELSE b

ErrorCounts(n) ==
  {0, Min(n, SampleErrorThreshold), Min(n, SampleErrorThreshold + 1)}

DeleteObjectsResults(n) ==
  { << n - e, e >> : e \in ErrorCounts(n) } \cup { << 0, 0 >>, << n, 1 >> }

NoResult == << >>

\* resetDeleteObjectsInput: a fresh input for the bucket, no objects yet.
resetDeleteObjectsInput(bucketName) ==
  [isNil |-> FALSE, Bucket |-> bucketName, Objects |-> << >>]

NilInput == [isNil |-> TRUE, Bucket |-> "", Objects |-> << >>]

Running == ~exited

(***************************************************************************)
(* The state after the flags are parsed.                                    *)
(***************************************************************************)
Init ==
  /\ flags \in Flags
  /\ mainPc = "flags"
  /\ j = 0
  /\ exited = FALSE
  /\ tileChan = << >>
  /\ chanClosed = FALSE
  /\ sourceWG = 0
  /\ sinkWG = 0
  /\ prodPc = "idle"
  /\ z = 0
  /\ k = 0
  /\ wPc = [w \in Workers |-> "idle"]
  /\ input = [w \in Workers |-> NilInput]
  /\ result = [w \in Workers |-> NoResult]
  /\ deletes = 0
  /\ errors = 0
  /\ tickerOn = FALSE
  /\ repPc = "idle"
  /\ repDeletes = 0
  /\ sampleLogs = 0
  /\ doneLog = << >>
  /\ received = [w \in Workers |-> 0]
  /\ calls = [w \in Workers |-> << >>]
  /\ store = [keys |-> 0, deleted |-> 0, errors |-> 0, over |-> 0,
              exact |-> TRUE, bounded |-> TRUE, late |-> {}]

(***************************************************************************)
(* main                                                                     *)
(***************************************************************************)
\* MainCheckFlags without the test of the bucket name.
MainCheckFlagsBuildIDOnly ==
  /\ Running
  /\ mainPc = "flags"
  /\ IF flags.buildID = ""
       THEN /\ exited' = TRUE
            /\ mainPc' = mainPc
       ELSE /\ mainPc' = "session"
            /\ exited' = exited
  /\ UNCHANGED << flags, j, chanVars, sourceWG, sinkWG, prodVars, wPc, input,
                  result, counterVars, repVars, sampleLogs, doneLog,
                  histVars >>

\* main.go:61-67: an empty build-id or bucket is fatal.
MainCheckFlags ==
  /\ Running
  /\ mainPc = "flags"
  /\ IF flags.buildID = "" \/ flags.bucketName = ""
       THEN /\ exited' = TRUE
            /\ mainPc' = mainPc
       ELSE /\ mainPc' = "session"
            /\ exited' = exited
  /\ UNCHANGED << flags, j, chanVars, sourceWG, sinkWG, prodVars, wPc, input,
                  result, counterVars, repVars, sampleLogs, doneLog,
                  histVars >>

\* main.go:69-76: the AWS session is created, or the failure is fatal.
MainNewSession ==
  /\ Running
  /\ mainPc = "session"
  /\ \E ok \in BOOLEAN :
       IF ok
         THEN /\ mainPc' = "source"
              /\ exited' = exited
         ELSE /\ exited' = TRUE
              /\ mainPc' = mainPc
  /\ UNCHANGED << flags, j, chanVars, sourceWG, sinkWG, prodVars, wPc, input,
                  result, counterVars, repVars, sampleLogs, doneLog,
                  histVars >>

\* main.go:78-95: the channel is made, the producer goroutine started.
MainStartSource ==
  /\ Running
  /\ mainPc = "source"
  /\ tileChan' = << >>
  /\ chanClosed' = FALSE
  /\ sourceWG' = sourceWG + 1
  /\ prodPc' = "run"
  /\ z' = 0
  /\ k' = 0
  /\ mainPc' = "ticker"
  /\ UNCHANGED << flags, j, exited, sinkWG, wPc, input, result, counterVars,
                  repVars, sampleLogs, doneLog, histVars >>

\* main.go:97-107: counters at zero, the ticker and its goroutine started,
\* sinkWaitGroup.Add(*concurrency).
MainStartTicker ==
  /\ Running
  /\ mainPc = "ticker"
  /\ deletes' = 0
  /\ errors' = 0
  /\ tickerOn' = TRUE
  /\ sinkWG' = sinkWG + flags.concurrency
  /\ j' = 0
  /\ mainPc' = "workers"
  /\ UNCHANGED << flags, exited, chanVars, sourceWG, prodVars, wPc, input,
                  result, repPc, repDeletes, sampleLogs, doneLog, histVars >>

\* MainStartWorker with a loop that runs once more than asked for.
MainStartWorkerOneMore ==
  /\ Running
  /\ mainPc = "workers"
  /\ j <= flags.concurrency
  /\ j < MaxConcurrency
  /\ wPc' = [wPc EXCEPT ![j + 1] = "range"]
  /\ input' = [input EXCEPT ![j + 1] = NilInput]
  /\ j' = j + 1
  /\ UNCHANGED << flags, mainPc, exited, chanVars, sourceWG, sinkWG, prodVars,
                  result, counterVars, repVars, sampleLogs, doneLog,
                  histVars >>

\* main.go:108-152: one `go func()` per iteration of the loop over j.
MainStartWorker ==
  /\ Running
  /\ mainPc = "workers"
  /\ j < flags.concurrency
  /\ wPc' = [wPc EXCEPT ![j + 1] = "range"]
  /\ input' = [input EXCEPT ![j + 1] = NilInput]
  /\ j' = j + 1
  /\ UNCHANGED << flags, mainPc, exited, chanVars, sourceWG, sinkWG, prodVars,
                  result, counterVars, repVars, sampleLogs, doneLog,
                  histVars >>

\* MainWaitSource without sourceWaitGroup.Wait().
MainWaitSourceNoWait ==
  /\ Running
  /\ mainPc = "workers"
  /\ ~(j < flags.concurrency)
  /\ mainPc' = "close"
  /\ UNCHANGED << flags, j, exited, chanVars, sourceWG, sinkWG, prodVars, wPc,
                  input, result, counterVars, repVars, sampleLogs, doneLog,
                  histVars >>

\* main.go:154: the loop is over and sourceWaitGroup.Wait() returns.
MainWaitSource ==
  /\ Running
  /\ mainPc = "workers"
  /\ ~(j < flags.concurrency)
  /\ sourceWG = 0
  /\ mainPc' = "close"
  /\ UNCHANGED << flags, j, exited, chanVars, sourceWG, sinkWG, prodVars, wPc,
                  input, result, counterVars, repVars, sampleLogs, doneLog,
                  histVars >>

\* MainCloseChan without close(tileChan).
MainSkipsClose ==
  /\ Running
  /\ mainPc = "close"
  /\ mainPc' = "waitSink"
  /\ UNCHANGED << flags, j, exited, chanVars, sourceWG, sinkWG, prodVars, wPc,
                  input, result, counterVars, repVars, sampleLogs, doneLog,
                  histVars >>

\* main.go:155: close(tileChan).
MainCloseChan ==
  /\ Running
  /\ mainPc = "close"
  /\ chanClosed' = TRUE
  /\ mainPc' = "waitSink"
  /\ UNCHANGED << flags, j, exited, tileChan, sourceWG, sinkWG, prodVars, wPc,
                  input, result, counterVars, repVars, sampleLogs, doneLog,
                  histVars >>

\* MainWaitSink without sinkWaitGroup.Wait().
MainWaitSinkNoWait ==
  /\ Running
  /\ mainPc = "waitSink"
  /\ tickerOn' = FALSE
  /\ mainPc' = "log"
  /\ UNCHANGED << flags, j, exited, chanVars, sourceWG, sinkWG, prodVars, wPc,
                  input, result, counterVars, repPc, repDeletes, sampleLogs,
                  doneLog, histVars >>

\* main.go:156-157: sinkWaitGroup.Wait() returns, ticker.Stop().
MainWaitSink ==
  /\ Running
  /\ mainPc = "waitSink"
  /\ sinkWG = 0
  /\ tickerOn' = FALSE
  /\ mainPc' = "log"
  /\ UNCHANGED << flags, j, exited, chanVars, sourceWG, sinkWG, prodVars, wPc,
                  input, result, counterVars, repPc, repDeletes, sampleLogs,
                  doneLog, histVars >>

\* main.go:159: the final line is logged and main returns.
MainLogDone ==
  /\ Running
  /\ mainPc = "log"
  /\ doneLog' = << deletes, errors >>
  /\ mainPc' = "done"
  /\ UNCHANGED << flags, j, exited, chanVars, sourceWG, sinkWG, prodVars, wPc,
                  input, result, counterVars, repVars, sampleLogs, histVars >>

\* The process is alive: it has neither exited nor returned from main.
Alive == Running /\ mainPc # "done"

(***************************************************************************)
(* The producer goroutine, main.go:82-94                                    *)
(***************************************************************************)
\* ProducerPush with a non-blocking send (`select` with a `default:`): on a
\* full channel the tile is passed over.
ProducerPushOrDrop ==
  /\ Alive
  /\ prodPc = "run"
  /\ z <= flags.maxZoom
  /\ ~chanClosed
  /\ tileChan' = IF Len(tileChan) < TileChanCap
                   THEN Append(tileChan, GenerateTiles(z, k))
                   ELSE tileChan
  /\ IF k + 1 < TilesAtZoom(z)
       THEN /\ k' = k + 1
            /\ z' = z
       ELSE /\ k' = 0
            /\ z' = z + 1
  /\ UNCHANGED << flags, mainVars, exited, chanClosed, sourceWG, sinkWG,
                  prodPc, wPc, input, result, counterVars, repVars,
                  sampleLogs, doneLog, histVars >>

\* ProducerPush with a zoom loop that steps by two.
ProducerPushSkipsZoom ==
  /\ Alive
  /\ prodPc = "run"
  /\ z <= flags.maxZoom
  /\ ~chanClosed
  /\ Len(tileChan) < TileChanCap
  /\ tileChan' = Append(tileChan, GenerateTiles(z, k))
  /\ IF k + 1 < TilesAtZoom(z)
       THEN /\ k' = k + 1
            /\ z' = z
       ELSE /\ k' = 0
            /\ z' = z + 2
  /\ UNCHANGED << flags, mainVars, exited, chanClosed, sourceWG, sinkWG,
                  prodPc, wPc, input, result, counterVars, repVars,
                  sampleLogs, doneLog, histVars >>

\* ProducerPush handing the channel the first tile of the zoom every time.
ProducerPushSameTile ==
  /\ Alive
  /\ prodPc = "run"
  /\ z <= flags.maxZoom
  /\ ~chanClosed
  /\ Len(tileChan) < TileChanCap
  /\ tileChan' = Append(tileChan, GenerateTiles(z, 0))
  /\ IF k + 1 < TilesAtZoom(z)
       THEN /\ k' = k + 1
            /\ z' = z
       ELSE /\ k' = 0
            /\ z' = z + 1
  /\ UNCHANGED << flags, mainVars, exited, chanClosed, sourceWG, sinkWG,
                  prodPc, wPc, input, result, counterVars, repVars,
                  sampleLogs, doneLog, histVars >>

\* ProducerPush onto a queue that grows without limit.
ProducerPushUnbounded ==
  /\ Alive
  /\ prodPc = "run"
  /\ z <= flags.maxZoom
  /\ ~chanClosed
  /\ tileChan' = Append(tileChan, GenerateTiles(z, k))
  /\ IF k + 1 < TilesAtZoom(z)
       THEN /\ k' = k + 1
            /\ z' = z
       ELSE /\ k' = 0
            /\ z' = z + 1
  /\ UNCHANGED << flags, mainVars, exited, chanClosed, sourceWG, sinkWG,
                  prodPc, wPc, input, result, counterVars, repVars,
                  sampleLogs, doneLog, histVars >>

\* ConsumerFunc: `tileChan <- tile` completes when a slot is free.  The next
\* tile of the zoom, or the first of the next zoom, is then due.
ProducerPush ==
  /\ Alive
  /\ prodPc = "run"
  /\ z <= flags.maxZoom
  /\ ~chanClosed
  /\ Len(tileChan) < TileChanCap
  /\ tileChan' = Append(tileChan, GenerateTiles(z, k))
  /\ IF k + 1 < TilesAtZoom(z)
       THEN /\ k' = k + 1
            /\ z' = z
       ELSE /\ k' = 0
            /\ z' = z + 1
  /\ UNCHANGED << flags, mainVars, exited, chanClosed, sourceWG, sinkWG,
                  prodPc, wPc, input, result, counterVars, repVars,
                  sampleLogs, doneLog, histVars >>

\* The zoom loop ends; the deferred sourceWaitGroup.Done() runs.
ProducerDone ==
  /\ Alive
  /\ prodPc = "run"
  /\ ~(z <= flags.maxZoom)
  /\ prodPc' = "done"
  /\ sourceWG' = sourceWG - 1
  /\ UNCHANGED << flags, mainVars, exited, chanVars, sinkWG, z, k, wPc, input,
                  result, counterVars, repVars, sampleLogs, doneLog,
                  histVars >>

(***************************************************************************)
(* A delete worker, main.go:109-151                                         *)
(***************************************************************************)
\* Some worker's sendDeleteObjects has got an error: log.Fatalf is under way.
AnyFatal == \E w \in Workers : wPc[w] = "fatal"

\* History of the calls that returned a result: worker w's call of n keys
\* returned r.  `late` holds the workers whose last result came back after
\* another worker's call had failed.
StoreAfter(w, n, r) ==
  [keys |-> store.keys + n,
   deleted |-> store.deleted + r[1],
   errors |-> store.errors + r[2],
   over |-> store.over + (IF r[2] > SampleErrorThreshold THEN 1 ELSE 0),
   exact |-> store.exact /\ (r[1] + r[2] = n),
   bounded |-> store.bounded /\ (r[1] + r[2] <= n),
   late |-> IF AnyFatal THEN store.late \cup {w} ELSE store.late \ {w}]

\* WorkerReceive with `>` for `==` in the test of the batch's length.
WorkerReceiveFlushesLate(w) ==
  /\ Alive
  /\ wPc[w] = "range"
  /\ tileChan # << >>
  /\ LET t == Head(tileChan)
         fresh == IF input[w].isNil
                    THEN resetDeleteObjectsInput(flags.bucketName)
                    ELSE input[w]
         key == computeKey(flags.buildID, t)
         filled == [fresh EXCEPT !.Objects = Append(@, key)]
     IN  /\ tileChan' = Tail(tileChan)
         /\ received' = [received EXCEPT ![w] = @ + 1]
         /\ input' = [input EXCEPT ![w] = filled]
         /\ IF Len(filled.Objects) > maxDeleteKeys
              THEN /\ wPc' = [wPc EXCEPT ![w] = "sendFull"]
                   /\ calls' = [calls EXCEPT ![w] = Append(@, filled.Objects)]
              ELSE /\ wPc' = wPc
                   /\ calls' = calls
  /\ UNCHANGED << flags, mainVars, exited, chanClosed, sourceWG, sinkWG,
                  prodVars, result, counterVars, repVars, sampleLogs, doneLog,
                  store >>

\* main.go:114-126: one iteration of `for t := range tileChan` up to the
\* test of the batch's length; a full batch goes out in sendDeleteObjects.
WorkerReceive(w) ==
  /\ Alive
  /\ wPc[w] = "range"
  /\ tileChan # << >>
  /\ LET t == Head(tileChan)
         fresh == IF input[w].isNil
                    THEN resetDeleteObjectsInput(flags.bucketName)
                    ELSE input[w]
         key == computeKey(flags.buildID, t)
         filled == [fresh EXCEPT !.Objects = Append(@, key)]
     IN  /\ tileChan' = Tail(tileChan)
         /\ received' = [received EXCEPT ![w] = @ + 1]
         /\ input' = [input EXCEPT ![w] = filled]
         /\ IF Len(filled.Objects) = maxDeleteKeys
              THEN /\ wPc' = [wPc EXCEPT ![w] = "sendFull"]
                   /\ calls' = [calls EXCEPT ![w] = Append(@, filled.Objects)]
              ELSE /\ wPc' = wPc
                   /\ calls' = calls
  /\ UNCHANGED << flags, mainVars, exited, chanClosed, sourceWG, sinkWG,
                  prodVars, result, counterVars, repVars, sampleLogs, doneLog,
                  store >>

\* WorkerRangeEnd without the flush of the trailing batch.
WorkerRangeEndNoFlush(w) ==
  /\ Alive
  /\ wPc[w] = "range"
  /\ tileChan = << >>
  /\ chanClosed
  /\ wPc' = [wPc EXCEPT ![w] = "done"]
  /\ sinkWG' = sinkWG - 1
  /\ UNCHANGED << flags, mainVars, exited, chanVars, sourceWG, prodVars,
                  input, result, counterVars, repVars, sampleLogs, doneLog,
                  histVars >>

\* WorkerRangeEnd with `> 1` for `> 0` in the test of the trailing batch.
WorkerRangeEndSkipsSingle(w) ==
  /\ Alive
  /\ wPc[w] = "range"
  /\ tileChan = << >>
  /\ chanClosed
  /\ IF ~input[w].isNil /\ Len(input[w].Objects) > 1
       THEN /\ wPc' = [wPc EXCEPT ![w] = "sendLast"]
            /\ calls' = [calls EXCEPT ![w] = Append(@, input[w].Objects)]
            /\ sinkWG' = sinkWG
       ELSE /\ wPc' = [wPc EXCEPT ![w] = "done"]
            /\ calls' = calls
            /\ sinkWG' = sinkWG - 1
  /\ UNCHANGED << flags, mainVars, exited, chanVars, sourceWG, prodVars,
                  input, result, counterVars, repVars, sampleLogs, doneLog,
                  received, store >>

\* WorkerRangeEnd with a receive that gives up on an empty channel, closed
\* or not.
WorkerRangeEndOnEmpty(w) ==
  /\ Alive
  /\ wPc[w] = "range"
  /\ tileChan = << >>
  /\ IF ~input[w].isNil /\ Len(input[w].Objects) > 0
       THEN /\ wPc' = [wPc EXCEPT ![w] = "sendLast"]
            /\ calls' = [calls EXCEPT ![w] = Append(@, input[w].Objects)]
            /\ sinkWG' = sinkWG
       ELSE /\ wPc' = [wPc EXCEPT ![w] = "done"]
            /\ calls' = calls
            /\ sinkWG' = sinkWG - 1
  /\ UNCHANGED << flags, mainVars, exited, chanVars, sourceWG, prodVars,
                  input, result, counterVars, repVars, sampleLogs, doneLog,
                  received, store >>

\* main.go:114, 142-143: the channel is closed and empty, the loop ends; a
\* non-empty batch goes out in sendDeleteObjects, else the worker returns
\* and the deferred sinkWaitGroup.Done() runs.
WorkerRangeEnd(w) ==
  /\ Alive
  /\ wPc[w] = "range"
  /\ tileChan = << >>
  /\ chanClosed
  /\ IF ~input[w].isNil /\ Len(input[w].Objects) > 0
       THEN /\ wPc' = [wPc EXCEPT ![w] = "sendLast"]
            /\ calls' = [calls EXCEPT ![w] = Append(@, input[w].Objects)]
            /\ sinkWG' = sinkWG
       ELSE /\ wPc' = [wPc EXCEPT ![w] = "done"]
            /\ calls' = calls
            /\ sinkWG' = sinkWG - 1
  /\ UNCHANGED << flags, mainVars, exited, chanVars, sourceWG, prodVars,
                  input, result, counterVars, repVars, sampleLogs, doneLog,
                  received, store >>

\* main.go:30-40: svc.DeleteObjects returns an error; sendDeleteObjects is
\* in log.Fatalf from here on.
SendDeleteObjectsFails(w) ==
  /\ Alive
  /\ wPc[w] \in {"sendFull", "sendLast"}
  /\ wPc' = [wPc EXCEPT ![w] = "fatal"]
  /\ UNCHANGED << flags, mainVars, exited, chanVars, sourceWG, sinkWG,
                  prodVars, input, result, counterVars, repVars, sampleLogs,
                  doneLog, histVars >>

\* log.Fatalf has written its line and calls os.Exit(1): every goroutine
\* ends here, whatever it was doing.
LogFatalfExits ==
  /\ Alive
  /\ AnyFatal
  /\ exited' = TRUE
  /\ UNCHANGED << flags, mainVars, chanVars, sourceWG, sinkWG, prodVars, wPc,
                  input, result, counterVars, repVars, sampleLogs, doneLog,
                  histVars >>

\* FullBatchReturns without `input = nil`.
FullBatchReturnsKeepsInput(w) ==
  /\ Alive
  /\ wPc[w] = "sendFull"
  /\ \E r \in DeleteObjectsResults(Len(input[w].Objects)) :
       /\ result' = [result EXCEPT ![w] = r]
       /\ store' = StoreAfter(w, Len(input[w].Objects), r)
       /\ sampleLogs' = IF r[2] > SampleErrorThreshold
                          THEN sampleLogs + 1
                          ELSE sampleLogs
  /\ wPc' = [wPc EXCEPT ![w] = "addDeletes"]
  /\ UNCHANGED << flags, mainVars, exited, chanVars, sourceWG, sinkWG,
                  prodVars, input, counterVars, repVars, doneLog, received,
                  calls >>

\* main.go:126-135: the call for a full batch returns a result; input = nil,
\* and a sample error is logged when more than 10 keys failed.
FullBatchReturns(w) ==
  /\ Alive
  /\ wPc[w] = "sendFull"
  /\ \E r \in DeleteObjectsResults(Len(input[w].Objects)) :
       /\ result' = [result EXCEPT ![w] = r]
       /\ store' = StoreAfter(w, Len(input[w].Objects), r)
       /\ sampleLogs' = IF r[2] > SampleErrorThreshold
                          THEN sampleLogs + 1
                          ELSE sampleLogs
  /\ input' = [input EXCEPT ![w] = NilInput]
  /\ wPc' = [wPc EXCEPT ![w] = "addDeletes"]
  /\ UNCHANGED << flags, mainVars, exited, chanVars, sourceWG, sinkWG,
                  prodVars, counterVars, repVars, doneLog, received, calls >>

\* main.go:137
FullBatchAddDeletes(w) ==
  /\ Alive
  /\ wPc[w] = "addDeletes"
  /\ deletes' = deletes + result[w][1]
  /\ wPc' = [wPc EXCEPT ![w] = "addErrors"]
  /\ UNCHANGED << flags, mainVars, exited, chanVars, sourceWG, sinkWG,
                  prodVars, input, result, errors, repVars, sampleLogs,
                  doneLog, histVars >>

\* FullBatchAddErrors adding to the deletes counter.
FullBatchAddErrorsToDeletes(w) ==
  /\ Alive
  /\ wPc[w] = "addErrors"
  /\ deletes' = deletes + result[w][2]
  /\ wPc' = [wPc EXCEPT ![w] = "range"]
  /\ UNCHANGED << flags, mainVars, exited, chanVars, sourceWG, sinkWG,
                  prodVars, input, result, errors, repVars, sampleLogs,
                  doneLog, histVars >>

\* main.go:138, and back to the head of the loop.
FullBatchAddErrors(w) ==
  /\ Alive
  /\ wPc[w] = "addErrors"
  /\ errors' = errors + result[w][2]
  /\ wPc' = [wPc EXCEPT ![w] = "range"]
  /\ UNCHANGED << flags, mainVars, exited, chanVars, sourceWG, sinkWG,
                  prodVars, input, result, deletes, repVars, sampleLogs,
                  doneLog, histVars >>

\* main.go:143-146: the call for the trailing batch returns a result.
LastBatchReturns(w) ==
  /\ Alive
  /\ wPc[w] = "sendLast"
  /\ \E r \in DeleteObjectsResults(Len(input[w].Objects)) :
       /\ result' = [result EXCEPT ![w] = r]
       /\ store' = StoreAfter(w, Len(input[w].Objects), r)
  /\ wPc' = [wPc EXCEPT ![w] = "addDeletesLast"]
  /\ UNCHANGED << flags, mainVars, exited, chanVars, sourceWG, sinkWG,
                  prodVars, input, counterVars, repVars, sampleLogs, doneLog,
                  received, calls >>

\* LastBatchAddDeletes counting the keys sent instead of the keys deleted.
LastBatchAddDeletesCountsKeys(w) ==
  /\ Alive
  /\ wPc[w] = "addDeletesLast"
  /\ deletes' = deletes + Len(input[w].Objects)
  /\ wPc' = [wPc EXCEPT ![w] = "addErrorsLast"]
  /\ UNCHANGED << flags, mainVars, exited, chanVars, sourceWG, sinkWG,
                  prodVars, input, result, errors, repVars, sampleLogs,
                  doneLog, histVars >>

\* main.go:148
LastBatchAddDeletes(w) ==
  /\ Alive
  /\ wPc[w] = "addDeletesLast"
  /\ deletes' = deletes + result[w][1]
  /\ wPc' = [wPc EXCEPT ![w] = "addErrorsLast"]
  /\ UNCHANGED << flags, mainVars, exited, chanVars, sourceWG, sinkWG,
                  prodVars, input, result, errors, repVars, sampleLogs,
                  doneLog, histVars >>

\* main.go:149, then the worker returns: sinkWaitGroup.Done().
LastBatchAddErrors(w) ==
  /\ Alive
  /\ wPc[w] = "addErrorsLast"
  /\ errors' = errors + result[w][2]
  /\ wPc' = [wPc EXCEPT ![w] = "done"]
  /\ sinkWG' = sinkWG - 1
  /\ UNCHANGED << flags, mainVars, exited, chanVars, sourceWG, prodVars,
                  input, result, deletes, repVars, sampleLogs, doneLog,
                  histVars >>

(***************************************************************************)
(* The reporter goroutine, main.go:99-103                                   *)
(***************************************************************************)
\* A tick arrives and the first argument of log.Printf is evaluated.
ReporterLoadDeletes ==
  /\ Alive
  /\ tickerOn
  /\ repPc = "idle"
  /\ repDeletes' = deletes
  /\ repPc' = "loaded"
  /\ UNCHANGED << flags, mainVars, exited, chanVars, sourceWG, sinkWG,
                  prodVars, wPc, input, result, counterVars, tickerOn,
                  sampleLogs, doneLog, histVars >>

\* ReporterLog that starts the counters afresh after each line.
ReporterLogResetsCounters ==
  /\ Alive
  /\ repPc = "loaded"
  /\ repPc' = "idle"
  /\ repDeletes' = 0
  /\ deletes' = 0
  /\ errors' = 0
  /\ UNCHANGED << flags, mainVars, exited, chanVars, sourceWG, sinkWG,
                  prodVars, wPc, input, result, tickerOn, sampleLogs,
                  doneLog, histVars >>

\* The second argument is evaluated and the line
\* "Deleted <repDeletes> objects (<errors> errors)" logged.
ReporterLog ==
  /\ Alive
  /\ repPc = "loaded"
  /\ repPc' = "idle"
  /\ repDeletes' = 0
  /\ UNCHANGED << flags, mainVars, exited, chanVars, sourceWG, sinkWG,
                  prodVars, wPc, input, result, counterVars, tickerOn,
                  sampleLogs, doneLog, histVars >>

Next ==
  \/ MainCheckFlags
  \/ MainNewSession
  \/ MainStartSource
  \/ MainStartTicker
  \/ MainStartWorker
  \/ MainWaitSource
  \/ MainCloseChan
  \/ MainWaitSink
  \/ MainLogDone
  \/ ProducerPush
  \/ ProducerDone
  \/ \E w \in Workers : WorkerReceive(w)
  \/ \E w \in Workers : WorkerRangeEnd(w)
  \/ \E w \in Workers : SendDeleteObjectsFails(w)
  \/ LogFatalfExits
  \/ \E w \in Workers : FullBatchReturns(w)
  \/ \E w \in Workers : FullBatchAddDeletes(w)
  \/ \E w \in Workers : FullBatchAddErrors(w)
  \/ \E w \in Workers : LastBatchReturns(w)
  \/ \E w \in Workers : LastBatchAddDeletes(w)
  \/ \E w \in Workers : LastBatchAddErrors(w)
  \/ ReporterLoadDeletes
  \/ ReporterLog

Spec == Init /\ [][Next]_vars

(***************************************************************************)
(* Quantities the properties below speak of.                                *)
(***************************************************************************)
\* The workers main starts.
StartedWorkers == 1 .. flags.concurrency

RECURSIVE SumOver(_, _)
\* The sum of f[x] over the x in S.
SumOver(f, S) ==
  IF S = {}
    THEN 0
    ELSE LET x == CHOOSE y \in S : TRUE
         IN  f[x] + SumOver(f, S \ {x})

RECURSIVE Concat(_)
\* The concatenation of a sequence of sequences.
Concat(ss) == IF ss = << >> THEN << >> ELSE Head(ss) \o Concat(Tail(ss))

Range(s) == { s[i] : i \in DOMAIN s }

\* Number of tiles the producer has pushed so far.
Pushed == (IF z = 0 THEN 0 ELSE TotalTiles(z - 1)) + k

\* Number of tiles the workers have taken from the channel so far.
Received == SumOver(received, Workers)

\* The keys of all the DeleteObjects calls issued so far, worker by worker.
SentKeys == Concat([w \in Workers |-> Concat(calls[w])])

\* Number of DeleteObjects calls issued so far.
CallCount == SumOver([w \in Workers |-> Len(calls[w])], Workers)

\* The keys of the tiles of the run.
RunKeys ==
  UNION { { computeKey(flags.buildID, GenerateTiles(zoom, i)) :
              i \in 0 .. TilesAtZoom(zoom) - 1 } :
          zoom \in 0 .. flags.maxZoom }

RunTiles == TotalTiles(flags.maxZoom)

\* main has logged the final line and returned.
Done == mainPc = "done"

(***************************************************************************)
(* C1.  Conservation of tiles.  No tile is dropped: at every moment the     *)
(* tiles pushed are those taken by the workers plus those waiting in the    *)
(* channel, which never holds more than its capacity.  When a run with at   *)
(* least one worker reaches Done and every call has reported each of its    *)
(* keys as deleted or as failed, deleted + errors is the number of tiles of *)
(* zooms 0 .. maxZoom, and that is what the final line shows.               *)
(***************************************************************************)
C1_Conservation ==
  /\ Len(tileChan) <= TileChanCap
  /\ Received + Len(tileChan) = Pushed
  /\ (Done /\ flags.concurrency >= 1 /\ store.exact)
       => /\ Pushed = RunTiles
          /\ deletes + errors = RunTiles
          /\ doneLog = << deletes, errors >>

\* A finished run of more tiles than the channel holds, with deletions and
\* per-key errors.
C1_Witness ==
  /\ Done
  /\ flags.concurrency >= 1
  /\ store.exact
  /\ RunTiles > TileChanCap
  /\ deletes > 0
  /\ errors > 0

(***************************************************************************)
(* C2.  Exactly-once delivery.  When a run with at least one worker reaches *)
(* Done, the channel is empty, the workers together took exactly the tiles  *)
(* of the run, each worker sent as many keys as it took tiles, and the keys *)
(* of all the calls of the run are the keys of the run's tiles, each once.  *)
(***************************************************************************)
C2_ExactlyOnce ==
  (Done /\ flags.concurrency >= 1)
    => /\ tileChan = << >>
       /\ Received = RunTiles
       /\ \A w \in Workers : Len(Concat(calls[w])) = received[w]
       /\ Len(SentKeys) = RunTiles
       /\ Cardinality(Range(SentKeys)) = Len(SentKeys)
       /\ Range(SentKeys) = RunKeys

\* A finished run in which two workers each took tiles.
C2_Witness ==
  /\ Done
  /\ flags.concurrency = 2
  /\ received[1] > 0
  /\ received[2] > 0

(***************************************************************************)
(* C3.  Accumulation, per worker.  A worker that has returned after taking  *)
(* N tiles has issued ceil(N / maxDeleteKeys) calls, whose key lists hold N *)
(* keys in all, every list but possibly the last holding maxDeleteKeys.     *)
(***************************************************************************)
C3_Accumulation ==
  \A w \in Workers :
    wPc[w] = "done"
      => LET c == calls[w]
             N == received[w]
         IN  /\ Len(c) = (N + maxDeleteKeys - 1) \div maxDeleteKeys
             /\ Len(Concat(c)) = N
             /\ \A i \in 1 .. Len(c) - 1 : Len(c[i]) = maxDeleteKeys
             /\ Len(c) > 0 => Len(c[Len(c)]) \in 1 .. maxDeleteKeys

\* A worker has returned after more than two full batches and a partial one.
C3_Witness ==
  \E w \in Workers :
    /\ wPc[w] = "done"
    /\ received[w] > 2 * maxDeleteKeys
    /\ received[w] % maxDeleteKeys # 0

(***************************************************************************)
(* C4.  Batch size bound.  A worker's pending batch never holds more than   *)
(* maxDeleteKeys keys, and every call carries from 1 to maxDeleteKeys keys. *)
(***************************************************************************)
C4_BatchSizeBound ==
  \A w \in Workers :
    /\ Len(input[w].Objects) <= maxDeleteKeys
    /\ \A i \in DOMAIN calls[w] : Len(calls[w][i]) \in 1 .. maxDeleteKeys

\* A worker that has sent a full batch holds one key less than a full batch.
C4_Witness ==
  \E w \in Workers :
    /\ calls[w] # << >>
    /\ Len(calls[w][1]) = maxDeleteKeys
    /\ Len(input[w].Objects) = maxDeleteKeys - 1

(***************************************************************************)
(* Scheduling.  The Go scheduler keeps running every goroutine that can     *)
(* take a step, and a DeleteObjects call in flight comes back, with a       *)
(* result or with an error.  The ticker is under no obligation.             *)
(***************************************************************************)
MainStep ==
  \/ MainCheckFlags
  \/ MainNewSession
  \/ MainStartSource
  \/ MainStartTicker
  \/ MainStartWorker
  \/ MainWaitSource
  \/ MainCloseChan
  \/ MainWaitSink
  \/ MainLogDone

ProducerStep == ProducerPush \/ ProducerDone

WorkerStep(w) ==
  \/ WorkerReceive(w)
  \/ WorkerRangeEnd(w)
  \/ SendDeleteObjectsFails(w)
  \/ FullBatchReturns(w)
  \/ FullBatchAddDeletes(w)
  \/ FullBatchAddErrors(w)
  \/ LastBatchReturns(w)
  \/ LastBatchAddDeletes(w)
  \/ LastBatchAddErrors(w)

Fairness ==
  /\ WF_vars(MainStep)
  /\ WF_vars(ProducerStep)
  /\ \A w \in Workers : WF_vars(WorkerStep(w))
  /\ WF_vars(LogFatalfExits)

FairSpec == Init /\ [][Next]_vars /\ Fairness

(***************************************************************************)
(* C5.  End-to-end scenario, -max-zoom 1.                                   *)
(***************************************************************************)
\* C5 as claimed: a finished run of zooms 0 and 1 has pushed 5 tiles and
\* issued one DeleteObjects call in all, which carries the 5 keys, whatever
\* the number of workers.
C5_OneCallInAll ==
  (Done /\ flags.maxZoom = 1 /\ flags.concurrency >= 1)
    => /\ Pushed = 5
       /\ CallCount = 1
       /\ Len(SentKeys) = 5

\* C5, amended: a finished run of zooms 0 and 1 has pushed 5 tiles; each
\* worker has issued at most one call, there are from 1 to
\* min(concurrency, 5) calls in all, and together they carry the 5 keys of
\* the run, each once; with a single worker there is one call, of 5 keys.
C5_EndToEnd ==
  (Done /\ flags.maxZoom = 1 /\ flags.concurrency >= 1)
    => /\ Pushed = 5
       /\ RunTiles = 5
       /\ \A w \in Workers : Len(calls[w]) <= 1
       /\ CallCount \in 1 .. Min(flags.concurrency, 5)
       /\ Len(SentKeys) = 5
       /\ Range(SentKeys) = RunKeys
       /\ flags.concurrency = 1
            => /\ CallCount = 1
               /\ Len(calls[1][1]) = 5

\* A finished run of zooms 0 and 1 in which two workers each sent a call.
C5_Witness ==
  /\ Done
  /\ flags.maxZoom = 1
  /\ flags.concurrency = 2
  /\ CallCount = 2

(***************************************************************************)
(* C6.  Fatal error.                                                        *)
(***************************************************************************)
\* The counters change in this step.
CountersChange == counterVars' # counterVars

\* C6 as claimed: once a call has failed at call level no worker issues a
\* further call, the final line is never logged, and no batch whose result
\* came back after the failure is counted.
C6_NothingAfterFailure ==
  /\ [][AnyFatal => calls' = calls]_vars
  /\ [](AnyFatal => doneLog = << >>)
  /\ [][\A w \in store.late :
          (wPc[w] \in {"addDeletes", "addErrors", "addDeletesLast",
                       "addErrorsLast"} /\ wPc'[w] # wPc[w])
            => ~CountersChange]_vars

\* C6, amended: the worker whose call failed issues no further call and
\* counts nothing for that batch; the process then exits, after which no
\* call is issued and no counter changes; the final line is never logged;
\* and the counters never show more than the calls that returned a result
\* have reported.  (Until the exit the other workers go on.)
C6_FatalError ==
  /\ [][\A w \in Workers :
          /\ (wPc[w] \in {"sendFull", "sendLast"} /\ wPc'[w] = "fatal")
               => (~CountersChange /\ store' = store)
          /\ wPc[w] = "fatal"
               => /\ wPc'[w] = "fatal"
                  /\ calls'[w] = calls[w]
                  /\ input'[w] = input[w]
                  /\ received'[w] = received[w]]_vars
  /\ [][~exited]_vars
  /\ [](AnyFatal => (~Done /\ doneLog = << >>))
  /\ [](deletes <= store.deleted /\ errors <= store.errors)
  /\ AnyFatal ~> exited

\* The process has exited on a failed call, after batches had been counted
\* and while another worker's call, issued after the failure, had come back.
C6_Witness ==
  /\ exited
  /\ AnyFatal
  /\ deletes + errors > 0
  /\ store.late # {}

(***************************************************************************)
(* C7.  Per-key errors.                                                     *)
(***************************************************************************)
\* Every result that came back is counted in full: the counters, with the
\* results the workers are about to add, are the totals reported.
ResultsAccounted ==
  LET pendingDeleted ==
        [w \in Workers |->
           IF wPc[w] \in {"addDeletes", "addDeletesLast"}
             THEN result[w][1] ELSE 0]
      pendingErrors ==
        [w \in Workers |->
           IF wPc[w] \in {"addDeletes", "addErrors", "addDeletesLast",
                          "addErrorsLast"}
             THEN result[w][2] ELSE 0]
  IN  /\ deletes + SumOver(pendingDeleted, Workers) = store.deleted
      /\ errors + SumOver(pendingErrors, Workers) = store.errors

\* A result coming back ends neither the worker nor the process.
ResultIsNotFatal ==
  [][store' # store
       => /\ exited' = exited
          /\ \A w \in Workers : wPc'[w] = "fatal" => wPc[w] = "fatal"]_vars

\* C7 as claimed: results are counted in full, a result is not fatal, and
\* after a result, of a full batch or of the trailing one, the worker's
\* batch is empty again and the worker is back in its loop.
C7_ResetAfterEveryCall ==
  /\ []ResultsAccounted
  /\ ResultIsNotFatal
  /\ [](\A w \in Workers :
          wPc[w] \in {"addDeletes", "addErrors", "addDeletesLast",
                      "addErrorsLast"}
            => Len(input[w].Objects) = 0)
  /\ [][\A w \in Workers :
          (wPc[w] \in {"addErrors", "addErrorsLast"} /\ wPc'[w] # wPc[w])
            => wPc'[w] = "range"]_vars

\* C7, amended: results are counted in full and a result is not fatal;
\* after the result of a full batch the worker's input is nil and the worker
\* goes back to its loop; after the result of the trailing batch the worker
\* returns, its input left as sent.
C7_PerKeyErrors ==
  /\ []ResultsAccounted
  /\ ResultIsNotFatal
  /\ [](\A w \in Workers :
          /\ wPc[w] \in {"addDeletes", "addErrors"} => input[w].isNil
          /\ wPc[w] \in {"addDeletesLast", "addErrorsLast"}
               => (~input[w].isNil /\ input[w].Objects = calls[w][Len(calls[w])]))
  /\ [][\A w \in Workers :
          /\ (wPc[w] = "addErrors" /\ wPc'[w] # wPc[w]) => wPc'[w] = "range"
          /\ (wPc[w] = "addErrorsLast" /\ wPc'[w] # wPc[w])
               => wPc'[w] = "done"]_vars

\* A worker is back in its loop, its input nil, after a full batch whose
\* result held deletions and per-key errors, all counted.
C7_Witness ==
  \E w \in Workers :
    /\ wPc[w] = "range"
    /\ calls[w] # << >>
    /\ input[w].isNil
    /\ deletes > 0
    /\ errors > 0
    /\ deletes = store.deleted
    /\ errors = store.errors
    /\ ~AnyFatal

(***************************************************************************)
(* C8.  Sample-error logging: as many "Sample error" lines have been logged *)
(* as results with more than 10 per-key errors have come back.              *)
(***************************************************************************)
C8_SampleLogged == sampleLogs = store.over

(***************************************************************************)
(* C9.  Shutdown ordering.  The channel is closed once, after the producer  *)
(* has pushed the tiles of every zoom and finished; the final line is       *)
(* logged after every started worker has returned, the channel closed and,  *)
(* with at least one worker, empty; the phases follow one another in order. *)
(***************************************************************************)
\* Idle, Producing+Consuming, Draining, Done.
Phase ==
  CASE mainPc \in {"flags", "session", "source"} -> 0
    [] mainPc \in {"ticker", "workers", "close"} -> 1
    [] mainPc \in {"waitSink", "log"} -> 2
    [] mainPc = "done" -> 3

C9_ShutdownOrdering ==
  /\ [](chanClosed
          => (prodPc = "done" /\ z > flags.maxZoom /\ Pushed = RunTiles))
  /\ [](mainPc = "close" => ~chanClosed)
  /\ [][chanClosed => chanClosed']_vars
  /\ [](prodPc = "idle" => Phase = 0)
  /\ [](Phase >= 2 <=> chanClosed)
  /\ [](doneLog # << >>
          => /\ Done
             /\ chanClosed
             /\ \A w \in StartedWorkers : wPc[w] = "done"
             /\ flags.concurrency >= 1 => tileChan = << >>)
  /\ [][Phase' \in {Phase, Phase + 1}]_vars

\* Two workers have returned and the final line is logged.
C9_Witness ==
  /\ doneLog # << >>
  /\ flags.concurrency = 2
  /\ chanClosed
  /\ Phase = 3

(***************************************************************************)
(* C10.  Termination.  Under fair scheduling, a run with at least one       *)
(* worker that has set up its session reaches Done, unless a DeleteObjects  *)
(* call fails at call level.                                                *)
(***************************************************************************)
C10_Termination ==
  (mainPc = "source" /\ flags.concurrency >= 1) ~> (Done \/ AnyFatal)

\* A run of more than two full batches has reached Done, with nothing left
\* to wait for.
C10_Witness ==
  /\ Done
  /\ flags.concurrency >= 1
  /\ RunTiles > 2 * maxDeleteKeys
  /\ sourceWG = 0
  /\ sinkWG = 0

(***************************************************************************)
(* C11.  Producer ordering.  There is one producer; it pushes the tiles of  *)
(* zoom 0, then those of zoom 1, and so on up to maxZoom: its zoom never    *)
(* goes down, moves on by one and only when the zoom at hand is exhausted,  *)
(* each tile pushed is of the zoom at hand, and when it finishes every zoom *)
(* of 0 .. maxZoom has been gone through.  The channel being FIFO, the      *)
(* zooms of the waiting tiles never go down from the oldest to the newest,  *)
(* and the tile a worker takes is of a zoom no higher than any tile still   *)
(* to leave.                                                                *)
(***************************************************************************)
\* The zooms of the tiles of q, oldest first, never go down.
ZoomsAscend(q) == \A a, b \in DOMAIN q : a < b => q[a].Z <= q[b].Z

\* A tile is pushed in this step.
TilePushed == Len(tileChan') > Len(tileChan)

\* A tile is taken by a worker in this step.
TileTaken == \E w \in Workers : received'[w] > received[w]

C11_ProducerOrdering ==
  /\ [](sourceWG \in {0, 1} /\ (prodPc = "run" <=> sourceWG = 1))
  /\ [](ZoomsAscend(tileChan))
  /\ [](\A i \in DOMAIN tileChan :
          /\ tileChan[i].Z <= z
          /\ tileChan[i].Z <= flags.maxZoom
          /\ tileChan[i].Z = z => k > 0)
  /\ [][z' \in {z, z + 1} /\ (z' = z + 1 => (TilePushed /\ k' = 0))]_vars
  /\ [][TilePushed
          => LET t == tileChan'[Len(tileChan')]
             IN  /\ tileChan' = Append(tileChan, t)
                 /\ t.Z = z
                 /\ k < TilesAtZoom(z)
                 /\ IF k + 1 = TilesAtZoom(z)
                      THEN z' = z + 1 /\ k' = 0
                      ELSE z' = z /\ k' = k + 1]_vars
  /\ [][TileTaken
          => /\ tileChan # << >>
             /\ tileChan' = Tail(tileChan)
             /\ Head(tileChan).Z <= z
             /\ \A i \in DOMAIN tileChan' :
                  Head(tileChan).Z <= tileChan'[i].Z]_vars
  /\ [](prodPc = "done"
          => (z = flags.maxZoom + 1 /\ k = 0 /\ Pushed = RunTiles))

\* Tiles have been taken, and the last tile of a zoom waits in the channel
\* ahead of the first tile of the next zoom.
C11_Witness ==
  /\ Received > 0
  /\ Len(tileChan) = 2
  /\ tileChan[1].Z >= 1
  /\ tileChan[2].Z = tileChan[1].Z + 1

(***************************************************************************)
(* C12.  Whole-world enumeration.  The tiles the producer pushes at zoom z  *)
(* are 4^z tiles, pairwise distinct, each of zoom z with x and y in         *)
(* 0 .. 2^z - 1; the producer has pushed (4^(maxZoom + 1) - 1) / 3 tiles,   *)
(* the sum of 4^z over 0 .. maxZoom, when it finishes.                      *)
(***************************************************************************)
\* The tiles handed over at `zoom` before the n-th.
TilesBefore(zoom, n) == { GenerateTiles(zoom, i) : i \in 0 .. n - 1 }

\* t is a tile of the 2^zoom x 2^zoom grid.
InGrid(t, zoom) ==
  /\ t.Z = zoom
  /\ t.X \in 0 .. 2 ^ zoom - 1
  /\ t.Y \in 0 .. 2 ^ zoom - 1

C12_WholeWorld ==
  /\ [](mainPc = "source"
          => \A zoom \in 0 .. flags.maxZoom :
               /\ Cardinality(TilesBefore(zoom, TilesAtZoom(zoom))) = 4 ^ zoom
               /\ \A t \in TilesBefore(zoom, TilesAtZoom(zoom)) :
                    InGrid(t, zoom))
  /\ [][TilePushed
          => LET t == tileChan'[Len(tileChan')]
             IN  /\ InGrid(t, z)
                 /\ t \notin TilesBefore(z, k)
                 /\ \A i \in DOMAIN tileChan : tileChan[i] # t
                 /\ k < 4 ^ z
                 /\ z' = z + 1 <=> k + 1 = 4 ^ z]_vars
  /\ [](prodPc = "done"
          => Pushed = (4 ^ (flags.maxZoom + 1) - 1) \div 3)

\* The producer has finished a run of zooms 0 .. 5: 1365 tiles.
C12_Witness ==
  /\ prodPc = "done"
  /\ flags.maxZoom = 5
  /\ Pushed = 1365

(***************************************************************************)
(* C13.  Shard prefix independence.  The keys of one tile under any two     *)
(* build ids start with the same 5 characters, lowercase hexadecimal        *)
(* digits, and a key is that prefix, "/", the build id, "/" and the tile's  *)
(* path "z/x/y.zip".  It is stated of every tile waiting in the channel,    *)
(* and of the key a worker appends for the tile it takes.                   *)
(***************************************************************************)
\* The build ids the key derivation is compared under.
KeyBuildIDs == BuildIDs \cup {"b2", "2024-01-01"}

ShardPrefix(key) == SubSeq(key, 1, 5)

HexDigits ==
  {"0", "1", "2", "3", "4", "5", "6", "7", "8", "9", "a", "b", "c", "d", "e",
   "f"}

\* The key of t under b is a 5-digit prefix, the build id and t's path, and
\* its prefix is the one of t's key under every other build id.
PrefixIndependent(t) ==
  \A b1 \in KeyBuildIDs :
    LET key1 == computeKey(b1, t)
        path == ToString(t.Z) \o "/" \o ToString(t.X) \o "/"
                  \o ToString(t.Y) \o ".zip"
    IN  /\ Len(key1) = 5 + 1 + Len(b1) + 1 + Len(path)
        /\ \A i \in 1 .. 5 : SubSeq(key1, i, i) \in HexDigits
        /\ SubSeq(key1, 6, Len(key1)) = "/" \o b1 \o "/" \o path
        /\ \A b2 \in KeyBuildIDs :
             ShardPrefix(computeKey(b2, t)) = ShardPrefix(key1)

C13_PrefixIndependence ==
  /\ [](\A i \in DOMAIN tileChan : PrefixIndependent(tileChan[i]))
  /\ [][\A w \in Workers :
          received'[w] > received[w]
            => LET t == Head(tileChan)
                   key == input'[w].Objects[Len(input'[w].Objects)]
               IN  /\ PrefixIndependent(t)
                   /\ ShardPrefix(key) = ShardPrefix(computeKey("b2", t))
                   /\ SubSeq(key, 6, Len(key))
                        = "/" \o flags.buildID \o "/" \o tilePath(t)]_vars

\* A worker holds the key of tile 0/0/0 under the build id of the run, and
\* a tile of zoom 1 waits in the channel.
C13_Witness ==
  \E w \in Workers :
    /\ input[w].Objects # << >>
    /\ input[w].Objects[1] = "df4c9/abc123/0/0/0.zip"
    /\ tileChan # << >>
    /\ Head(tileChan).Z = 1

(***************************************************************************)
(* C14.  Key derivation is injective.  For the build id of the run, the     *)
(* tiles of zooms 0 .. maxZoom have as many keys as there are tiles, and    *)
(* the key a worker derives for the tile it takes is the key of that tile   *)
(* and of no tile keyed before in the run, by this worker or another.       *)
(***************************************************************************)
\* key is among the keys derived so far: those sent and those waiting in a
\* batch.
KeyedBefore(key) ==
  \E w \in Workers :
    \/ \E i \in DOMAIN input[w].Objects : input[w].Objects[i] = key
    \/ \E c \in DOMAIN calls[w] :
         \E i \in DOMAIN calls[w][c] : calls[w][c][i] = key

C14_KeyInjective ==
  /\ [](mainPc = "source" => Cardinality(RunKeys) = RunTiles)
  /\ [][\A w \in Workers :
          received'[w] > received[w]
            => LET key == input'[w].Objects[Len(input'[w].Objects)]
               IN  /\ key = computeKey(flags.buildID, Head(tileChan))
                   /\ ~KeyedBefore(key)]_vars

\* A worker that has sent a full batch holds further keys, and a tile waits.
C14_Witness ==
  \E w \in Workers :
    /\ calls[w] # << >>
    /\ Len(input[w].Objects) >= 2
    /\ wPc[w] = "range"
    /\ tileChan # << >>

(***************************************************************************)
(* C15.  Configuration errors.  With an empty build id or an empty bucket   *)
(* name main never gets past the test of its flags: the only step it takes  *)
(* ends the process, no session is asked for, the channel is not made, the  *)
(* producer, the ticker and the workers are not started, no tile is pushed  *)
(* or taken and no DeleteObjects call is issued.                            *)
(***************************************************************************)
BadFlags == flags.buildID = "" \/ flags.bucketName = ""

C15_ConfigErrors ==
  /\ [](BadFlags
          => /\ mainPc = "flags"
             /\ prodPc = "idle"
             /\ sourceWG = 0
             /\ sinkWG = 0
             /\ ~tickerOn
             /\ repPc = "idle"
             /\ \A w \in Workers : wPc[w] = "idle" /\ input[w].isNil
             /\ tileChan = << >>
             /\ ~chanClosed
             /\ Pushed = 0
             /\ Received = 0
             /\ CallCount = 0
             /\ deletes = 0
             /\ errors = 0
             /\ doneLog = << >>)
  /\ [][BadFlags => (~exited /\ exited')]_vars

\* The process has exited on an empty bucket name; two workers were asked
\* for.
C15_Witness ==
  /\ exited
  /\ flags.buildID # ""
  /\ flags.bucketName = ""
  /\ flags.concurrency = 2
  /\ flags.maxZoom = 1

(***************************************************************************)
(* C16.  Bounded queue.  The channel never holds more tiles than its        *)
(* capacity (TileChanCap here, 10000 in main.go:78); a push completes only  *)
(* when a slot is free, so from a state with a full channel nothing is      *)
(* pushed until a worker has taken a tile; and every tile pushed is either  *)
(* in the channel or has been taken by a worker.                            *)
(***************************************************************************)
ChanFull == Len(tileChan) = TileChanCap

C16_BoundedQueue ==
  /\ [](Len(tileChan) <= TileChanCap)
  /\ [](Pushed = Received + Len(tileChan))
  /\ [][TilePushed => (~ChanFull /\ Pushed' = Pushed + 1)]_vars
  /\ [][ChanFull
          => /\ Pushed' = Pushed
             /\ tileChan' # tileChan
                  => (TileTaken /\ Len(tileChan') = TileChanCap - 1)]_vars

\* The channel is full while the producer has tiles left to push, and
\* tiles have been taken before.
C16_Witness ==
  /\ ChanFull
  /\ prodPc = "run"
  /\ z <= flags.maxZoom
  /\ Received > 0
  /\ Alive

(***************************************************************************)
(* C17.  Flush discipline.  A worker's input is nil until its first key     *)
(* and again after a full batch has gone out, and is created with the key   *)
(* that follows; a batch of fewer than maxDeleteKeys keys goes out only in  *)
(* the step that ends the worker's loop, with the channel closed and empty, *)
(* and is the worker's last call; a worker whose loop ends after no tile,   *)
(* or after a multiple of maxDeleteKeys tiles, returns without a call.      *)
(***************************************************************************)
\* Worker w issues a call in this step.
CallIssued(w) == Len(calls'[w]) > Len(calls[w])

\* The calls of less than maxDeleteKeys keys c holds.
PartialCalls(c) == { i \in DOMAIN c : Len(c[i]) < maxDeleteKeys }

C17_WitnessAfterFlush ==
  \E w \in Workers :
    /\ wPc[w] = "range"
    /\ received[w] = 2 * maxDeleteKeys
    /\ Len(calls[w]) = 2
    /\ input[w].isNil

(***************************************************************************)
(* C18.  The reporter.  A step of the reporter loads the deletes counter,   *)
(* or loads the errors counter and logs the line; it changes nothing but    *)
(* the reporter's own position and loaded value.  No other goroutine waits  *)
(* for it: wherever the reporter is, the producer can push when the channel *)
(* has a free slot, a worker can take a tile when there is one, and a       *)
(* worker past its loop's head can go on.                                   *)
(***************************************************************************)
\* The reporter takes a step.
ReporterStep == repPc' # repPc

\* Everything but the reporter's position and the value it has loaded.
NonReporterVars ==
  << flags, mainVars, exited, chanVars, sourceWG, sinkWG, prodVars, wPc,
     input, result, counterVars, tickerOn, sampleLogs, doneLog, histVars >>

C18_Reporter ==
  /\ [][ReporterStep
          => /\ UNCHANGED NonReporterVars
             /\ \/ /\ repPc = "idle"
                   /\ tickerOn
                   /\ repPc' = "loaded"
                   /\ repDeletes' = deletes
                \/ /\ repPc = "loaded"
                   /\ repPc' = "idle"]_vars
  /\ [][repDeletes' # repDeletes => ReporterStep]_vars
  /\ [](repPc \in {"idle", "loaded"} /\ repDeletes <= deletes)
  /\ [](Alive
          => /\ (prodPc = "run" /\ z <= flags.maxZoom /\ ~chanClosed
                   /\ Len(tileChan) < TileChanCap)
                  => ENABLED ProducerPush
             /\ (prodPc = "run" /\ z > flags.maxZoom) => ENABLED ProducerDone
             /\ \A w \in Workers :
                  /\ (wPc[w] = "range" /\ tileChan # << >>)
                       => ENABLED WorkerReceive(w)
                  /\ (wPc[w] = "range" /\ tileChan = << >> /\ chanClosed)
                       => ENABLED WorkerRangeEnd(w)
                  /\ wPc[w] \in {"sendFull", "sendLast", "addDeletes",
                                 "addErrors", "addDeletesLast",
                                 "addErrorsLast"}
                       => ENABLED WorkerStep(w))

\* The reporter has loaded a non-zero deletes counter and is about to log,
\* while a worker holds a batch, a tile waits and the producer is at work.
C18_Witness ==
  /\ repPc = "loaded"
  /\ repDeletes > 0
  /\ prodPc = "run"
  /\ tileChan # << >>
  /\ \E w \in Workers : wPc[w] = "range" /\ Len(input[w].Objects) > 0

(***************************************************************************)
(* C19.  Counter invariant.  The two counters never go down.  As long as    *)
(* every result has reported no more keys than its call sent, deletes +     *)
(* errors is at most the number of keys of the calls that have returned a   *)
(* result, which is at most the number of keys sent, at most the number of  *)
(* tiles taken from the channel, at most the number of tiles pushed; the    *)
(* pair the reporter logs (deletes loaded first, errors later) and the pair *)
(* of the final line are within the same limit.                             *)
(***************************************************************************)
C19_CounterInvariant ==
  /\ [][deletes' >= deletes /\ errors' >= errors]_vars
  /\ [](deletes >= 0 /\ errors >= 0)
  /\ [](store.bounded
          => /\ deletes + errors <= store.keys
             /\ store.keys <= Len(SentKeys)
             /\ Len(SentKeys) <= Received
             /\ Received <= Pushed
             /\ repPc = "loaded" => repDeletes + errors <= store.keys
             /\ doneLog # << >> => doneLog[1] + doneLog[2] <= store.keys)

\* The reporter is about to log while every limit of the chain is strict:
\* a result has reported fewer keys than were sent, a call is in flight or a
\* batch is pending, and a tile waits in the channel.
C19_Witness ==
  /\ store.bounded
  /\ repPc = "loaded"
  /\ repDeletes > 0
  /\ errors > 0
  /\ deletes + errors < store.keys
  /\ store.keys < Received
  /\ Received < Pushed

(***************************************************************************)
(* C20.  No workers.  -concurrency 0 passes the test of the flags.  When    *)
(* the run has more tiles than the channel has slots, the producer fills    *)
(* the channel and stays in its push, main stays in sourceWaitGroup.Wait(), *)
(* the channel is never closed, no tile is taken, no DeleteObjects call is  *)
(* issued and the final line is never logged: once the channel is full no   *)
(* step of main, of the producer or of a worker is possible.                *)
(***************************************************************************)
NoWorkers ==
  /\ flags.concurrency = 0
  /\ ~BadFlags
  /\ RunTiles > TileChanCap

C20_ZeroWorkers ==
  NoWorkers
    => /\ ~Done
       /\ doneLog = << >>
       /\ ~chanClosed
       /\ mainPc \in {"flags", "session", "source", "ticker", "workers"}
       /\ prodPc \in {"idle", "run"}
       /\ Pushed <= TileChanCap
       /\ Received = 0
       /\ CallCount = 0
       /\ deletes = 0
       /\ errors = 0
       /\ \A w \in Workers : wPc[w] = "idle"
       /\ (ChanFull /\ mainPc = "workers")
            => /\ prodPc = "run"
               /\ sourceWG = 1
               /\ z <= flags.maxZoom
               /\ ~ENABLED MainStep
               /\ ~ENABLED ProducerStep
               /\ \A w \in Workers : ~ENABLED WorkerStep(w)
               /\ ~ENABLED LogFatalfExits

\* No worker was asked for, the channel is full with tiles left to push, and
\* main waits for the producer, while the reporter goes on logging.
C20_Witness ==
  /\ NoWorkers
  /\ ChanFull
  /\ mainPc = "workers"
  /\ prodPc = "run"
  /\ repPc = "loaded"
  /\ ~exited

=============================================================================
